---- MODULE Spec2Model ----
(***************************************************************************)
(* Model of the online decision engine of the Kavak demo:                  *)
(*   app/factories/policy_learner.py  ThompsonBandit, EpsilonGreedyBandit  *)
(*   app/models.py, app/scoring.py     Score, compute_reward               *)
(*   app/factories/prioritizer.py      Prioritizer                         *)
(*                                                                         *)
(* Numbers.  Rewards, alpha, beta and total_reward are floats in the       *)
(* source; here they are exact fixed-point numbers in tenths (ONE = 1.0).  *)
(*                                                                         *)
(* Objects.  A Python dict is a reference: contextual_state maps a context *)
(* to a reference into heap, heap[ref] is the arm-state dict it names and  *)
(* global_state is the reference of the dict built by __init__.            *)
(***************************************************************************)
EXTENDS Integers, Sequences, FiniteSets, TLC

VARIABLES
    variant,           \* class of the policy object, "none" before __init__
    arms,              \* self.arms
    alpha_prior,       \* self.alpha_prior   (ThompsonBandit)
    beta_prior,        \* self.beta_prior    (ThompsonBandit)
    epsilon,           \* self.epsilon       (EpsilonGreedyBandit)
    heap,              \* the arm-state dicts, by reference
    contextual_state,  \* self.contextual_state: insertion-ordered (key, ref)
    last,              \* the call that returned last, and what it returned
    ncalls,            \* calls made so far
    referenced,        \* history: contexts passed to select or update
    applied,           \* history: per (context, arm) the updates that returned
    frames,            \* per thread: the call it is in and where (concurrent callers)
    judged,            \* the last two evaluations turned into rewards, latest last
    ranked,            \* the last call of Prioritizer.rank and what it returned
    iteration,         \* run_iteration of the app: where it is and the policy calls made
    conversation,      \* run_conversation: the plan, the turns so far, the outcome
    runner,            \* AgentsRunner: its retry settings and the call in progress
    batch              \* run_iteration of the conversation runner: futures and records

vars == <<variant, arms, alpha_prior, beta_prior, epsilon, heap,
          contextual_state, last, ncalls, referenced, applied, frames,
          judged, ranked, iteration, conversation, runner, batch>>

policy_vars == <<variant, arms, alpha_prior, beta_prior, epsilon>>

pipeline_vars == <<judged, ranked, iteration, conversation, runner, batch>>

bandit_vars == <<policy_vars, heap, contextual_state, last, ncalls, referenced,
                 applied, frames>>

----------------------------------------------------------------------------
(* Bounds of the model *)

MaxCalls == 3       \* calls on one policy object in one behaviour
MaxSample == 2      \* distinct values a Beta draw is told apart by
MaxThreadCalls == 2 \* calls started by concurrent callers in one behaviour
MaxPool == 2        \* customers in the pool handed to rank
MaxCustomers == 2   \* customers in the session of one run_iteration
MaxProfiles == 3    \* profiles handed to the batch run_iteration
MaxRetries == 3     \* self.max_retries of an AgentsRunner (DEFAULT_RETRIES)
MaxTurns == 3       \* plan.max_turns of a conversation

----------------------------------------------------------------------------
(* Values *)

ONE == 10                       \* 1.0, the upper clip bound, in tenths
None == <<>>                    \* context=None
Contexts == {<<"vip", "mecanica">>, <<"masivo", "atencion">>}
AllContexts == Contexts \cup {None}
ArmIds == {"A", "B"}            \* template ids given to __init__
UnknownArm == "X"               \* an arm id that is in no arm list
ArmLists == {<< >>, <<"A", "B">>}
Rewards == {-5, 3, 15}           \* -0.5 (clipped to 0.0), 0.3, 1.5 (clipped to 1.0)
Priors == {<<10, 10>>, <<20, 5>>}   \* (1.0, 1.0) default, (2.0, 0.5)
Epsilons == {0, 1}              \* 0.0 and the default 0.1
Uniform == {0, 5}               \* values of np.random.random()

Threads == {"t1", "t2"}         \* concurrent callers of one policy object

Keys(seq) == {seq[i] : i \in 1..Len(seq)}
NoCall == [op |-> "none", context |-> None, arm |-> "", reward |-> 0,
           result |-> "ok", ret |-> "None", samples |-> << >>]

\* Sub-scores a Judge answer may carry, in tenths: NPS_expected, and the two
\* probabilities; the first and last of each lie outside the declared domain.
NpsValues == {-1, 0, 50, 100, 101}
ProbValues == {-1, 0, 5, 10, 11}

\* Customers: price, last_purchase_days (any int), issues_flag (0 or 1).
Prices == {0, 100}
Days == {-1, 0, 1}
Customers == [price : Prices, last_purchase_days : Days, issues_flag : {0, 1}]
Pools == UNION {[1..n -> Customers] : n \in 0..MaxPool}

\* (w_issues, w_price, w_recency) in tenths: the defaults, and all equal to 0.
WeightSettings == {<<5, 3, 2>>, <<0, 0, 0>>}

\* top_n: None is << >>, the integer k is <<k>>.
TopNs == {None} \cup {<<k>> : k \in 0..(MaxPool + 1)}

\* Customers of a session: vocal or not, with segment and issue bucket ("" is
\* None), and the three fields the prioritizer scores.
SessionCustomers ==
    { [is_vocal |-> TRUE, segment |-> "VF", issue_bucket |-> "mecanica",
       price |-> 100, last_purchase_days |-> 1, issues_flag |-> 1],
      [is_vocal |-> TRUE, segment |-> "VE", issue_bucket |-> "",
       price |-> 0, last_purchase_days |-> 2, issues_flag |-> 0],
      [is_vocal |-> FALSE, segment |-> "NVF", issue_bucket |-> "",
       price |-> 100, last_purchase_days |-> 2, issues_flag |-> 0],
      [is_vocal |-> FALSE, segment |-> "NVE", issue_bucket |-> "finanzas",
       price |-> 0, last_purchase_days |-> 1, issues_flag |-> 1] }
Sessions == UNION {[1..n -> SessionCustomers] : n \in 0..MaxCustomers}

\* st.number_input(min_value=5, max_value=100, value=20, step=5)
OutreachNs == {5, 20}

\* What the LLM behind responder.run / outreach.run does, and what the safety
\* check says of the text it wrote.
ResponderOutcomes == {"text", "raises"}

\* What the LLM behind judge.run answers: sub-scores in tenths, or an error.
JudgeAnswers ==
    { [raised |-> FALSE, nps |-> 100, eng |-> 10, chrn |-> 0],
      [raised |-> FALSE, nps |-> 101, eng |-> 5, chrn |-> 5],
      [raised |-> TRUE, nps |-> 0, eng |-> 0, chrn |-> 0] }

NoIteration == [pc |-> "idle"]
\* Texts are sequences of one-character strings.  What the two LLMs of a
\* conversation may write (run_text returns the text stripped):
AgentMessages ==
    { <<"H", "i">>, <<"e", "n", "d">>, <<"[", "E", "N", "D", "]">> }
CustomerMessages ==
    { <<"o", "k">>, <<"N", "P", "S", ":", " ", "7">>,
      <<"n", "p", "s", "=", "1", "2", " ", "E", "N", "D">> }

\* plan.end_triggers: the default of StrategyPlan, and a list a planner gave.
TriggerLists ==
    { << <<"E", "N", "D">>, <<"[", "E", "N", "D", "]">>, <<"<", "<", "E", "N", "D", ">", ">">> >>,
      << <<"[", "E", "N", "D", "]">> >> }

\* The text _ensure_nps_exchange puts in the agent's mouth, abridged.
NpsRequest == <<"N", "P", "S", " ", "0", "-", "1", "0", "?">>

NoMetadata == [outcome |-> << >>, auto |-> ""]

NoConversation == [pc |-> "idle"]
\* self.backoff in tenths: DEFAULT_BACKOFF = 1.5, and 2.0
Backoffs == {15, 20}

\* What client.responses.create may raise (all are Exceptions)
ApiErrors == {"RateLimitError", "APIConnectionError", "APITimeoutError"}

NoRunner == [pc |-> "none"]
\* concurrency > 1: the thread pool branch of the batch run_iteration
Concurrencies == {2, 3}

\* How _process_profile ends: with a record, or with an Exception it catches
ProfileOutcomes == {"record", "raises"}

NoBatch == [pc |-> "idle"]

NoRank == [customers |-> << >>, weights |-> << >>, top_n |-> None,
           result |-> "none", scored |-> << >>, ret |-> << >>]

----------------------------------------------------------------------------
(* The policy object *)

global_state == 1               \* reference of self.global_state

PriorArmState(v, a0, b0) ==
    IF v = "ThompsonBandit"
    THEN [alpha |-> a0, beta |-> b0]
    ELSE [total_reward |-> 0, count |-> 0]

\* Mutant: a new context is seeded with a copy of the global statistics.
NewArmDictCopyGlobal(v, as, a0, b0) ==
    IF heap = << >>
    THEN [arm \in Keys(as) |-> PriorArmState(v, a0, b0)]
    ELSE heap[global_state]

\* {arm: {...prior...} for arm in arms}
NewArmDict(v, as, a0, b0) == [arm \in Keys(as) |-> PriorArmState(v, a0, b0)]

has_context(cs, context) == \E i \in 1..Len(cs) : cs[i].key = context
lookup(cs, context) == cs[CHOOSE i \in 1..Len(cs) : cs[i].key = context].ref

\* list(self.contextual_state.keys())
get_all_contexts == [i \in 1..Len(contextual_state) |-> contextual_state[i].key]

\* Mutant: a new context shares the global dict instead of getting its own.
get_state_alias_global(context) ==
    IF context = None
    THEN [state |-> global_state, heap |-> heap, contextual_state |-> contextual_state]
    ELSE IF has_context(contextual_state, context)
    THEN [state |-> lookup(contextual_state, context), heap |-> heap,
          contextual_state |-> contextual_state]
    ELSE [state |-> global_state, heap |-> heap,
          contextual_state |-> Append(contextual_state,
                                      [key |-> context, ref |-> global_state])]

\* Mutant: the dict of a new context is handed out but not stored.
get_state_unregistered(context) ==
    IF context = None
    THEN [state |-> global_state, heap |-> heap, contextual_state |-> contextual_state]
    ELSE IF has_context(contextual_state, context)
    THEN [state |-> lookup(contextual_state, context), heap |-> heap,
          contextual_state |-> contextual_state]
    ELSE [state |-> Len(heap) + 1,
          heap |-> Append(heap, NewArmDict(variant, arms, alpha_prior, beta_prior)),
          contextual_state |-> contextual_state]

\* Mutant: no "context not in" test, every reference installs a fresh dict.
get_state_reinit(context) ==
    IF context = None
    THEN [state |-> global_state, heap |-> heap, contextual_state |-> contextual_state]
    ELSE LET ref == Len(heap) + 1
             fresh == Append(heap, NewArmDict(variant, arms, alpha_prior, beta_prior))
         IN IF has_context(contextual_state, context)
            THEN [state |-> ref, heap |-> fresh,
                  contextual_state |->
                      [i \in 1..Len(contextual_state) |->
                          IF contextual_state[i].key = context
                          THEN [key |-> context, ref |-> ref]
                          ELSE contextual_state[i]]]
            ELSE [state |-> ref, heap |-> fresh,
                  contextual_state |-> Append(contextual_state,
                                              [key |-> context, ref |-> ref])]

\* _get_state(context): the reference it returns and the heap and
\* contextual_state it leaves behind.
get_state(context) ==
    IF context = None
    THEN [state |-> global_state, heap |-> heap, contextual_state |-> contextual_state]
    ELSE IF has_context(contextual_state, context)
    THEN [state |-> lookup(contextual_state, context), heap |-> heap,
          contextual_state |-> contextual_state]
    ELSE LET ref == Len(heap) + 1
         IN [state |-> ref,
             heap |-> Append(heap, NewArmDict(variant, arms, alpha_prior, beta_prior)),
             contextual_state |-> Append(contextual_state, [key |-> context, ref |-> ref])]

\* Mutant: a missing key is not reported.
has_arm_any(state, arm) == TRUE

\* state[arm]: the subscript finds the key, or raises KeyError
has_arm(state, arm) == arm \in DOMAIN state

\* Mutant: the reward is folded in as given.
clip_none(reward) == reward

\* np.clip(reward, 0, 1)
clip(reward) == IF reward < 0 THEN 0 ELSE IF reward > ONE THEN ONE ELSE reward

\* Mutant: beta grows by a whole pull whatever the reward.
ThompsonFoldWholeFailure(s, r) == [alpha |-> s.alpha + r, beta |-> s.beta + ONE]

\* state[arm]["alpha"] += r ; state[arm]["beta"] += (1 - r)
ThompsonFold(s, r) == [alpha |-> s.alpha + r, beta |-> s.beta + (ONE - r)]

\* Mutant: total_reward is assigned, not accumulated.
EpsilonFoldAssign(s, r) == [total_reward |-> r, count |-> s.count + 1]

\* state[arm]["total_reward"] += r ; state[arm]["count"] += 1
EpsilonFold(s, r) == [total_reward |-> s.total_reward + r, count |-> s.count + 1]

----------------------------------------------------------------------------
(* History bookkeeping shared by the calls *)

NoneApplied == [c \in AllContexts |-> [a \in ArmIds |-> [n |-> 0, sum |-> 0]]]

Returned(op, context, arm, reward, result, ret) ==
    /\ last' = [op |-> op, context |-> context, arm |-> arm, reward |-> reward,
                result |-> result, ret |-> ret, samples |-> << >>]
    /\ ncalls' = ncalls + 1
    /\ UNCHANGED frames

\* ThompsonBandit.select has returned ret, having drawn samples.
Selected(context, samples, ret) ==
    /\ last' = [op |-> "select", context |-> context, arm |-> "", reward |-> 0,
                result |-> "ok", ret |-> ret, samples |-> samples]
    /\ ncalls' = ncalls + 1
    /\ UNCHANGED frames

\* A thread that is in no call.
Idle == [pc |-> "idle", op |-> "none", context |-> None, arm |-> "", reward |-> 0,
         r |-> 0, state |-> 0, tmp |-> 0, tmp2 |-> 0, i |-> 1, stats |-> << >>]

----------------------------------------------------------------------------
(* __init__ *)

Init ==
    /\ variant = "none"
    /\ arms = << >>
    /\ alpha_prior = 0
    /\ beta_prior = 0
    /\ epsilon = 0
    /\ heap = << >>
    /\ contextual_state = << >>
    /\ last = NoCall
    /\ ncalls = 0
    /\ referenced = {}
    /\ applied = NoneApplied
    /\ frames = [t \in Threads |-> Idle]
    /\ judged = << >>
    /\ ranked = NoRank
    /\ iteration = NoIteration
    /\ conversation = NoConversation
    /\ runner = NoRunner
    /\ batch = NoBatch

ThompsonInit(as, a0, b0) ==
    /\ variant = "none"
    /\ variant' = "ThompsonBandit"
    /\ arms' = as
    /\ alpha_prior' = a0
    /\ beta_prior' = b0
    /\ heap' = << NewArmDict("ThompsonBandit", as, a0, b0) >>
    /\ contextual_state' = << >>
    /\ UNCHANGED <<epsilon, last, ncalls, referenced, applied, frames, pipeline_vars>>

EpsilonInit(as, eps) ==
    /\ variant = "none"
    /\ variant' = "EpsilonGreedyBandit"
    /\ arms' = as
    /\ epsilon' = eps
    /\ heap' = << NewArmDict("EpsilonGreedyBandit", as, 0, 0) >>
    /\ contextual_state' = << >>
    /\ UNCHANGED <<alpha_prior, beta_prior, last, ncalls, referenced, applied, frames,
                   pipeline_vars>>

----------------------------------------------------------------------------
(* Helpers of select and get_statistics *)

\* Iteration order of {arm: ... for arm in arms}: first occurrences, in order.
RECURSIVE dict_keys(_)
dict_keys(as) ==
    IF as = << >> THEN << >>
    ELSE LET front == dict_keys(SubSeq(as, 1, Len(as) - 1))
         IN IF as[Len(as)] \in Keys(front) THEN front ELSE Append(front, as[Len(as)])

\* Fractions <<num, den>> with den > 0.
Leq(a, b) == a[1] * b[2] <= b[1] * a[2]

\* Mutant: min() where max() was meant.
argmin_first(order, val) ==
    order[CHOOSE i \in 1..Len(order) :
            /\ \A j \in 1..Len(order) : Leq(val[order[i]], val[order[j]])
            /\ \A j \in 1..(i - 1) : ~Leq(val[order[j]], val[order[i]])]

\* max(d, key=d.get): the first key, in iteration order, that holds a maximum.
argmax_first(order, val) ==
    order[CHOOSE i \in 1..Len(order) :
            /\ \A j \in 1..Len(order) : Leq(val[order[j]], val[order[i]])
            /\ \A j \in 1..(i - 1) : ~Leq(val[order[i]], val[order[j]])]

\* Mutant: "<=" where "<" was meant.
explores_leq(u, eps) == u <= eps

\* np.random.random() < self.epsilon
explores(u, eps) == u < eps

\* s["total_reward"] / s["count"] if s["count"] > 0 else 0.0
sample_mean(s) == IF s.count > 0 THEN <<s.total_reward, s.count>> ELSE <<0, 1>>

\* Mutant: the mean is taken of beta.
ThompsonStatsMeanOfBeta(state) ==
    [arm \in DOMAIN state |->
        LET alpha == state[arm].alpha
            beta == state[arm].beta
        IN [mean |-> <<beta, alpha + beta>>,
            variance |-> <<ONE * alpha * beta,
                           (alpha + beta) * (alpha + beta) * (alpha + beta + ONE)>>,
            alpha |-> alpha,
            beta |-> beta,
            n_pulls |-> alpha + beta - 2 * ONE]]

\* The dict ThompsonBandit.get_statistics builds from a state dict; std is the
\* square root of variance, carried here as the variance it is taken of.
ThompsonStats(state) ==
    [arm \in DOMAIN state |->
        LET alpha == state[arm].alpha
            beta == state[arm].beta
        IN [mean |-> <<alpha, alpha + beta>>,
            variance |-> <<ONE * alpha * beta,
                           (alpha + beta) * (alpha + beta) * (alpha + beta + ONE)>>,
            alpha |-> alpha,
            beta |-> beta,
            n_pulls |-> alpha + beta - 2 * ONE]]

\* The dict EpsilonGreedyBandit.get_statistics builds from a state dict.
EpsilonStats(state) ==
    [arm \in DOMAIN state |->
        [mean |-> sample_mean(state[arm]),
         total_reward |-> state[arm].total_reward,
         n_pulls |-> state[arm].count]]

----------------------------------------------------------------------------
(* The calls, each one whole *)

\* What the claims call the clamped reward (history only).
Clamped(reward) == IF reward < 0 THEN 0 ELSE IF reward > 10 THEN 10 ELSE reward

Noted(context, arm, reward) ==
    [applied EXCEPT ![context][arm] = [n |-> @.n + 1, sum |-> @.sum + Clamped(reward)]]

ThompsonUpdate(arm, reward, context) ==
    /\ variant = "ThompsonBandit"
    /\ ncalls < MaxCalls
    /\ LET r == clip(reward)
           g == get_state(context)
       IN /\ contextual_state' = g.contextual_state
          /\ IF has_arm(g.heap[g.state], arm)
             THEN /\ heap' = [g.heap EXCEPT ![g.state][arm] = ThompsonFold(@, r)]
                  /\ applied' = Noted(context, arm, reward)
                  /\ Returned("update", context, arm, reward, "ok", "None")
             ELSE /\ heap' = g.heap
                  /\ applied' = applied
                  /\ Returned("update", context, arm, reward, "KeyError", "None")
    /\ referenced' = referenced \cup {context}
    /\ UNCHANGED <<policy_vars, pipeline_vars>>

EpsilonUpdate(arm, reward, context) ==
    /\ variant = "EpsilonGreedyBandit"
    /\ ncalls < MaxCalls
    /\ LET r == clip(reward)
           g == get_state(context)
       IN /\ contextual_state' = g.contextual_state
          /\ IF has_arm(g.heap[g.state], arm)
             THEN /\ heap' = [g.heap EXCEPT ![g.state][arm] = EpsilonFold(@, r)]
                  /\ applied' = Noted(context, arm, reward)
                  /\ Returned("update", context, arm, reward, "ok", "None")
             ELSE /\ heap' = g.heap
                  /\ applied' = applied
                  /\ Returned("update", context, arm, reward, "KeyError", "None")
    /\ referenced' = referenced \cup {context}
    /\ UNCHANGED <<policy_vars, pipeline_vars>>

ThompsonSelect(context) ==
    /\ variant = "ThompsonBandit"
    /\ ncalls < MaxCalls
    /\ LET g == get_state(context)
           state == g.heap[g.state]
       IN /\ contextual_state' = g.contextual_state
          /\ heap' = g.heap
          /\ IF \E arm \in DOMAIN state : state[arm].alpha <= 0 \/ state[arm].beta <= 0
             THEN \* np.random.beta rejects a parameter that is not positive
                  Returned("select", context, "", 0, "ValueError", "None")
             ELSE IF DOMAIN state = {}
             THEN \* max() of an empty dict
                  Returned("select", context, "", 0, "ValueError", "None")
             ELSE \E samples \in [DOMAIN state -> 1..MaxSample] :
                  Selected(context, samples,
                           argmax_first(dict_keys(arms),
                                        [arm \in DOMAIN state |-> <<samples[arm], 1>>]))
    /\ referenced' = referenced \cup {context}
    /\ UNCHANGED <<policy_vars, pipeline_vars, applied>>

EpsilonSelect(context) ==
    /\ variant = "EpsilonGreedyBandit"
    /\ ncalls < MaxCalls
    /\ LET g == get_state(context)
           state == g.heap[g.state]
       IN /\ contextual_state' = g.contextual_state
          /\ heap' = g.heap
          /\ \E u \in Uniform :
                IF explores(u, epsilon)
                THEN \* np.random.choice(self.arms)
                     IF arms = << >>
                     THEN Returned("select", context, "", 0, "ValueError", "None")
                     ELSE \E i \in 1..Len(arms) :
                            Returned("select", context, "", 0, "ok", arms[i])
                ELSE IF DOMAIN state = {}
                     THEN Returned("select", context, "", 0, "ValueError", "None")
                     ELSE Returned("select", context, "", 0, "ok",
                                   argmax_first(dict_keys(arms),
                                                [arm \in DOMAIN state |-> sample_mean(state[arm])]))
    /\ referenced' = referenced \cup {context}
    /\ UNCHANGED <<policy_vars, pipeline_vars, applied>>

ThompsonGetStatistics(context) ==
    /\ variant = "ThompsonBandit"
    /\ ncalls < MaxCalls
    /\ LET g == get_state(context)
       IN /\ contextual_state' = g.contextual_state
          /\ heap' = g.heap
          /\ Returned("get_statistics", context, "", 0, "ok", ThompsonStats(g.heap[g.state]))
    /\ UNCHANGED <<policy_vars, pipeline_vars, referenced, applied>>

EpsilonGetStatistics(context) ==
    /\ variant = "EpsilonGreedyBandit"
    /\ ncalls < MaxCalls
    /\ LET g == get_state(context)
       IN /\ contextual_state' = g.contextual_state
          /\ heap' = g.heap
          /\ Returned("get_statistics", context, "", 0, "ok", EpsilonStats(g.heap[g.state]))
    /\ UNCHANGED <<policy_vars, pipeline_vars, referenced, applied>>

GetAllContexts ==
    /\ variant # "none"
    /\ ncalls < MaxCalls
    /\ Returned("get_all_contexts", None, "", 0, "ok", get_all_contexts)
    /\ UNCHANGED <<policy_vars, pipeline_vars, heap, contextual_state, referenced, applied>>

Next ==
    \/ \E as \in ArmLists, p \in Priors : ThompsonInit(as, p[1], p[2])
    \/ \E as \in ArmLists, eps \in Epsilons : EpsilonInit(as, eps)
    \/ \E arm \in ArmIds, reward \in Rewards, context \in AllContexts :
          ThompsonUpdate(arm, reward, context)
    \/ \E context \in AllContexts : ThompsonUpdate(UnknownArm, 3, context)
    \/ \E arm \in ArmIds, reward \in Rewards, context \in AllContexts :
          EpsilonUpdate(arm, reward, context)
    \/ \E context \in AllContexts : EpsilonUpdate(UnknownArm, 3, context)
    \/ \E context \in AllContexts : ThompsonSelect(context)
    \/ \E context \in AllContexts : EpsilonSelect(context)
    \/ \E context \in AllContexts : ThompsonGetStatistics(context)
    \/ \E context \in AllContexts : EpsilonGetStatistics(context)
    \/ GetAllContexts

Spec == Init /\ [][Next]_vars

\* A Thompson policy fed the two extreme rewards, 0.0 and 1.0.
UnitRewards == {0, ONE}

MeanNext ==
    \/ \E p \in Priors : ThompsonInit(<<"A", "B">>, p[1], p[2])
    \/ \E arm \in ArmIds, reward \in UnitRewards, context \in AllContexts :
          ThompsonUpdate(arm, reward, context)
    \/ \E context \in AllContexts : ThompsonGetStatistics(context)

MeanSpec == Init /\ [][MeanNext]_vars

----------------------------------------------------------------------------
(* Concurrent callers.  The classes take no lock, so the calls of several    *)
(* threads interleave between the reads and writes of the statements below;  *)
(* a thread's frame holds its position and its locals.                       *)

ConcArms == {"A", UnknownArm}
ConcRewards == {3, 15}
ConcContexts == {None, <<"vip", "mecanica">>}

\* self.contextual_state[context] = ...
put(cs, context, ref) ==
    IF has_context(cs, context)
    THEN [i \in 1..Len(cs) |->
            IF cs[i].key = context THEN [key |-> context, ref |-> ref] ELSE cs[i]]
    ELSE Append(cs, [key |-> context, ref |-> ref])

\* The two fields an update writes, by class, and what it adds to each.
first_field(s) == IF variant = "ThompsonBandit" THEN s.alpha ELSE s.total_reward
second_field(s) == IF variant = "ThompsonBandit" THEN s.beta ELSE s.count
with_first(s, v) ==
    IF variant = "ThompsonBandit" THEN [s EXCEPT !.alpha = v] ELSE [s EXCEPT !.total_reward = v]
with_second(s, v) ==
    IF variant = "ThompsonBandit" THEN [s EXCEPT !.beta = v] ELSE [s EXCEPT !.count = v]
second_increment(r) == IF variant = "ThompsonBandit" THEN ONE - r ELSE 1

\* Where a call goes on once _get_state has returned.
body(op) == IF op = "update" THEN "load_first"
            ELSE IF op = "select" THEN "sample" ELSE "read_first"

ThreadReturns(t, result, ret) ==
    /\ last' = [op |-> frames[t].op, context |-> frames[t].context,
                arm |-> frames[t].arm, reward |-> frames[t].reward,
                result |-> result, ret |-> ret, samples |-> << >>]
    /\ frames' = [frames EXCEPT ![t] = Idle]

ConcInit ==
    /\ variant \in {"ThompsonBandit", "EpsilonGreedyBandit"}
    /\ arms = <<"A", "B">>
    /\ alpha_prior = IF variant = "ThompsonBandit" THEN ONE ELSE 0
    /\ beta_prior = IF variant = "ThompsonBandit" THEN ONE ELSE 0
    /\ epsilon = IF variant = "ThompsonBandit" THEN 0 ELSE 1
    /\ heap = << NewArmDict(variant, arms, alpha_prior, beta_prior) >>
    /\ contextual_state = << >>
    /\ last = NoCall
    /\ ncalls = 0
    /\ referenced = {}
    /\ applied = NoneApplied
    /\ frames = [t \in Threads |-> Idle]
    /\ judged = << >>
    /\ ranked = NoRank
    /\ iteration = NoIteration
    /\ conversation = NoConversation
    /\ runner = NoRunner
    /\ batch = NoBatch

\* update(arm, reward, context) is entered: r = np.clip(reward, 0, 1)
CallUpdate(t, arm, reward, context) ==
    /\ frames[t].pc = "idle"
    /\ ncalls < MaxThreadCalls
    /\ frames' = [frames EXCEPT ![t] =
                    [pc |-> "get_state", op |-> "update", context |-> context,
                     arm |-> arm, reward |-> reward, r |-> clip(reward),
                     state |-> 0, tmp |-> 0, tmp2 |-> 0, i |-> 1, stats |-> << >>]]
    /\ ncalls' = ncalls + 1
    /\ referenced' = referenced \cup {context}
    /\ UNCHANGED <<policy_vars, pipeline_vars, heap, contextual_state, last, applied>>

\* select(context) is entered
CallSelect(t, context) ==
    /\ frames[t].pc = "idle"
    /\ ncalls < MaxThreadCalls
    /\ frames' = [frames EXCEPT ![t] =
                    [pc |-> "get_state", op |-> "select", context |-> context,
                     arm |-> "", reward |-> 0, r |-> 0, state |-> 0, tmp |-> 0,
                     tmp2 |-> 0, i |-> 1, stats |-> << >>]]
    /\ ncalls' = ncalls + 1
    /\ referenced' = referenced \cup {context}
    /\ UNCHANGED <<policy_vars, pipeline_vars, heap, contextual_state, last, applied>>

\* get_statistics(context) is entered
CallGetStatistics(t, context) ==
    /\ frames[t].pc = "idle"
    /\ ncalls < MaxThreadCalls
    /\ frames' = [frames EXCEPT ![t] =
                    [Idle EXCEPT !.pc = "get_state", !.op = "get_statistics",
                                 !.context = context]]
    /\ ncalls' = ncalls + 1
    /\ UNCHANGED <<policy_vars, pipeline_vars, heap, contextual_state, last, referenced,
                   applied>>

\* _get_state: "if context is None" and "if context not in self.contextual_state"
GetStateTest(t) ==
    /\ frames[t].pc = "get_state"
    /\ frames' = [frames EXCEPT ![t] =
                    IF frames[t].context = None
                    THEN [frames[t] EXCEPT !.state = global_state,
                                           !.pc = body(frames[t].op)]
                    ELSE IF has_context(contextual_state, frames[t].context)
                    THEN [frames[t] EXCEPT !.pc = "return_state"]
                    ELSE [frames[t] EXCEPT !.pc = "init_context"]]
    /\ UNCHANGED <<policy_vars, pipeline_vars, heap, contextual_state, last, ncalls, referenced, applied>>

\* _get_state: self.contextual_state[context] = {arm: priors for arm in self.arms}
GetStateInit(t) ==
    /\ frames[t].pc = "init_context"
    /\ heap' = Append(heap, NewArmDict(variant, arms, alpha_prior, beta_prior))
    /\ contextual_state' = put(contextual_state, frames[t].context, Len(heap) + 1)
    /\ frames' = [frames EXCEPT ![t].pc = "return_state"]
    /\ UNCHANGED <<policy_vars, pipeline_vars, last, ncalls, referenced, applied>>

\* _get_state: return self.contextual_state[context]
GetStateReturn(t) ==
    /\ frames[t].pc = "return_state"
    /\ frames' = [frames EXCEPT ![t] =
                    [frames[t] EXCEPT
                        !.state = lookup(contextual_state, frames[t].context),
                        !.pc = body(frames[t].op)]]
    /\ UNCHANGED <<policy_vars, pipeline_vars, heap, contextual_state, last, ncalls, referenced, applied>>

\* update: state[arm] and the read of its first field; KeyError without the key
UpdateLoadFirst(t) ==
    /\ frames[t].pc = "load_first"
    /\ IF has_arm(heap[frames[t].state], frames[t].arm)
       THEN /\ frames' = [frames EXCEPT ![t] =
                           [frames[t] EXCEPT
                               !.tmp = first_field(heap[frames[t].state][frames[t].arm]),
                               !.pc = "store_first"]]
            /\ UNCHANGED last
       ELSE ThreadReturns(t, "KeyError", "None")
    /\ UNCHANGED <<policy_vars, pipeline_vars, heap, contextual_state, ncalls, referenced, applied>>

\* update: the write of "+= r" to the first field
UpdateStoreFirst(t) ==
    /\ frames[t].pc = "store_first"
    /\ heap' = [heap EXCEPT ![frames[t].state][frames[t].arm] =
                    with_first(@, frames[t].tmp + frames[t].r)]
    /\ frames' = [frames EXCEPT ![t].pc = "load_second"]
    /\ UNCHANGED <<policy_vars, pipeline_vars, contextual_state, last, ncalls, referenced, applied>>

\* update: the read of the second field
UpdateLoadSecond(t) ==
    /\ frames[t].pc = "load_second"
    /\ frames' = [frames EXCEPT ![t] =
                    [frames[t] EXCEPT
                        !.tmp = second_field(heap[frames[t].state][frames[t].arm]),
                        !.pc = "store_second"]]
    /\ UNCHANGED <<policy_vars, pipeline_vars, heap, contextual_state, last, ncalls, referenced, applied>>

\* update: the write of "+= (1 - r)" or "+= 1" to the second field; update returns
UpdateStoreSecond(t) ==
    /\ frames[t].pc = "store_second"
    /\ heap' = [heap EXCEPT ![frames[t].state][frames[t].arm] =
                    with_second(@, frames[t].tmp + second_increment(frames[t].r))]
    /\ applied' = Noted(frames[t].context, frames[t].arm, frames[t].reward)
    /\ ThreadReturns(t, "ok", "None")
    /\ UNCHANGED <<policy_vars, pipeline_vars, contextual_state, ncalls, referenced>>

\* select: the draws (or the means) are taken of the state and an arm returned
SelectSample(t) ==
    /\ frames[t].pc = "sample"
    /\ LET state == heap[frames[t].state]
       IN IF variant = "ThompsonBandit"
          THEN \E samples \in [DOMAIN state -> 1..MaxSample] :
                 ThreadReturns(t, "ok",
                     argmax_first(dict_keys(arms),
                                  [arm \in DOMAIN state |-> <<samples[arm], 1>>]))
          ELSE \E u \in Uniform :
                 IF explores(u, epsilon)
                 THEN \E i \in 1..Len(arms) : ThreadReturns(t, "ok", arms[i])
                 ELSE ThreadReturns(t, "ok",
                         argmax_first(dict_keys(arms),
                                      [arm \in DOMAIN state |-> sample_mean(state[arm])]))
    /\ UNCHANGED <<policy_vars, pipeline_vars, heap, contextual_state, ncalls, referenced, applied>>

\* The arm the loop "for arm, s in state.items()" of get_statistics is at.
loop_arm(t) == dict_keys(arms)[frames[t].i]

\* get_statistics: alpha = s["alpha"], or count = s["count"]; with no arm left
\* to visit, return stats
StatsReadFirst(t) ==
    /\ frames[t].pc = "read_first"
    /\ IF frames[t].i > Len(dict_keys(arms))
       THEN ThreadReturns(t, "ok", frames[t].stats)
       ELSE /\ LET s == heap[frames[t].state][loop_arm(t)]
                   first == IF variant = "ThompsonBandit" THEN s.alpha ELSE s.count
               IN frames' = [frames EXCEPT ![t] =
                               [frames[t] EXCEPT
                                   !.tmp = first,
                                   !.pc = IF variant = "ThompsonBandit" \/ first = 0
                                          THEN "read_second" ELSE "read_mean"]]
            /\ UNCHANGED last
    /\ UNCHANGED <<policy_vars, pipeline_vars, heap, contextual_state, ncalls, referenced,
                   applied>>

\* EpsilonGreedyBandit.get_statistics: mean = s["total_reward"] / count if count > 0
StatsReadMean(t) ==
    /\ frames[t].pc = "read_mean"
    /\ frames' = [frames EXCEPT ![t] =
                    [frames[t] EXCEPT
                        !.tmp2 = heap[frames[t].state][loop_arm(t)].total_reward,
                        !.pc = "read_second"]]
    /\ UNCHANGED <<policy_vars, pipeline_vars, heap, contextual_state, last, ncalls,
                   referenced, applied>>

\* get_statistics: beta = s["beta"], or "total_reward": s["total_reward"];
\* stats[arm] = {...} and the loop goes on to the next arm
StatsReadSecond(t) ==
    /\ frames[t].pc = "read_second"
    /\ LET arm == loop_arm(t)
           s == heap[frames[t].state][arm]
           entry == IF variant = "ThompsonBandit"
                    THEN ThompsonStats([a \in {arm} |->
                                          [alpha |-> frames[t].tmp, beta |-> s.beta]])[arm]
                    ELSE [mean |-> sample_mean([count |-> frames[t].tmp,
                                                total_reward |-> frames[t].tmp2]),
                          total_reward |-> s.total_reward,
                          n_pulls |-> frames[t].tmp]
       IN frames' = [frames EXCEPT ![t] =
                       [frames[t] EXCEPT
                           !.stats = [a \in DOMAIN frames[t].stats \cup {arm} |->
                                        IF a = arm THEN entry ELSE frames[t].stats[a]],
                           !.tmp = 0, !.tmp2 = 0,
                           !.i = frames[t].i + 1,
                           !.pc = "read_first"]]
    /\ UNCHANGED <<policy_vars, pipeline_vars, heap, contextual_state, last, ncalls,
                   referenced, applied>>

ConcNext ==
    \/ \E t \in Threads, arm \in ConcArms, reward \in ConcRewards, context \in ConcContexts :
          CallUpdate(t, arm, reward, context)
    \/ \E t \in Threads, context \in ConcContexts : CallSelect(t, context)
    \/ \E t \in Threads : GetStateTest(t)
    \/ \E t \in Threads : GetStateInit(t)
    \/ \E t \in Threads : GetStateReturn(t)
    \/ \E t \in Threads : UpdateLoadFirst(t)
    \/ \E t \in Threads : UpdateStoreFirst(t)
    \/ \E t \in Threads : UpdateLoadSecond(t)
    \/ \E t \in Threads : UpdateStoreSecond(t)
    \/ \E t \in Threads : SelectSample(t)
    \/ \E t \in Threads, context \in ConcContexts : CallGetStatistics(t, context)
    \/ \E t \in Threads : StatsReadFirst(t)
    \/ \E t \in Threads : StatsReadMean(t)
    \/ \E t \in Threads : StatsReadSecond(t)

ConcSpec == ConcInit /\ [][ConcNext]_vars

----------------------------------------------------------------------------
(* From a Judge answer to a reward: app/models.py Score, app/scoring.py.     *)
(* Sub-scores are in tenths, the reward is in thousandths (MILLI = 1.0).     *)

MILLI == 1000

\* Mutant: le=1 missing on ChurnProb.
ScoreValidChurnUnbounded(nps, eng, chrn) ==
    /\ nps >= 0 /\ nps <= 10 * ONE
    /\ eng >= 0 /\ eng <= ONE
    /\ chrn >= 0

\* Field(ge=0, le=10), Field(ge=0, le=1), Field(ge=0, le=1)
ScoreValid(nps, eng, chrn) ==
    /\ nps >= 0 /\ nps <= 10 * ONE
    /\ eng >= 0 /\ eng <= ONE
    /\ chrn >= 0 /\ chrn <= ONE

Score(nps, eng, chrn) ==
    [NPS_expected |-> nps, EngagementProb |-> eng, ChurnProb |-> chrn]

default_score == Score(50, 5, 5)

\* Judge.run: Score(**score_dict), and the default score when that raises.
Judge_run(nps, eng, chrn) ==
    IF ScoreValid(nps, eng, chrn)
    THEN [built |-> "ok", score |-> Score(nps, eng, chrn)]
    ELSE [built |-> "ValidationError", score |-> default_score]

Max(x, y) == IF x >= y THEN x ELSE y
Min(x, y) == IF x <= y THEN x ELSE y

\* Mutant: the result is not clamped.
compute_reward_raw(score) ==
    6 * score.NPS_expected + 3 * (score.EngagementProb * 10)
        - 3 * (score.ChurnProb * 10)

\* Mutant: churn is added, not subtracted.
compute_reward_churn_added(score) ==
    LET r_raw == 6 * score.NPS_expected + 3 * (score.EngagementProb * 10)
                    + 3 * (score.ChurnProb * 10)
    IN Max(0, Min(MILLI, r_raw))

\* r_raw = 0.6 * nps + 0.3 * (eng * 10) - 0.3 * (chrn * 10), in hundredths;
\* r = max(0.0, min(1.0, r_raw / 10.0)), in thousandths.
compute_reward(score) ==
    LET r_raw == 6 * score.NPS_expected + 3 * (score.EngagementProb * 10)
                    - 3 * (score.ChurnProb * 10)
    IN Max(0, Min(MILLI, r_raw))

\* score = judge.run(ctx, message); reward = compute_reward(score)
Evaluate(nps, eng, chrn) ==
    LET run == Judge_run(nps, eng, chrn)
        rec == [raw |-> Score(nps, eng, chrn), built |-> run.built,
                score |-> run.score, reward |-> compute_reward(run.score)]
    IN /\ judged' = IF judged = << >> THEN <<rec>> ELSE <<judged[Len(judged)], rec>>
       /\ UNCHANGED <<bandit_vars, ranked, iteration, conversation, runner, batch>>

RewardNext == \E nps \in NpsValues, eng, chrn \in ProbValues : Evaluate(nps, eng, chrn)

RewardSpec == Init /\ [][RewardNext]_vars

----------------------------------------------------------------------------
(* Prioritizer: app/factories/prioritizer.py.  A score is an exact fraction  *)
(* <<numerator, denominator>> in tenths; a customer of the returned list is  *)
(* named by its position in the list given to rank.                          *)

\* max(prices), max(recencies)
max(seq) == CHOOSE m \in Keys(seq) : \A i \in 1..Len(seq) : seq[i] <= m

\* recency_score = 1.0 / (customer.last_purchase_days + 1) raises on -1
divides_by_zero(customer) == customer.last_purchase_days + 1 = 0

\* price_score, recency_score and their weighted sum with issues_score
compute_score(w, customer, max_price, max_recency) ==
    LET issues_score == customer.issues_flag
        price_score == IF max_price > 0 THEN <<customer.price, max_price>> ELSE <<0, 1>>
        recency_score == IF max_recency > 0
                         THEN <<max_recency + 1, customer.last_purchase_days + 1>>
                         ELSE <<0, 1>>
    IN [price_score |-> price_score,
        recency_score |-> recency_score,
        score |-> << w[1] * issues_score * price_score[2] * recency_score[2]
                       + w[2] * price_score[1] * recency_score[2]
                       + w[3] * recency_score[1] * price_score[2],
                     price_score[2] * recency_score[2] >>]

\* Mutant: of two equal scores the later one of the input comes first.
sort_descending_last_first(scored) ==
    LET n == Len(scored)
        before(j, i) == \/ ~Leq(scored[j].score, scored[i].score)
                        \/ /\ Leq(scored[i].score, scored[j].score) /\ j > i
        place(i) == 1 + Cardinality({j \in 1..n : before(j, i)})
    IN [k \in 1..n |-> CHOOSE i \in 1..n : place(i) = k]

\* scored.sort(key=lambda x: x[1], reverse=True): a stable sort, so of two
\* equal scores the earlier one of the input stays first.
sort_descending(scored) ==
    LET n == Len(scored)
        before(j, i) == \/ ~Leq(scored[j].score, scored[i].score)
                        \/ /\ Leq(scored[i].score, scored[j].score) /\ j < i
        place(i) == 1 + Cardinality({j \in 1..n : before(j, i)})
    IN [k \in 1..n |-> CHOOSE i \in 1..n : place(i) = k]

\* if top_n:
truthy(top_n) == top_n # None /\ top_n[1] # 0

\* scored[:top_n], top_n >= 0
slice(seq, top_n) == SubSeq(seq, 1, Min(top_n[1], Len(seq)))

\* Prioritizer(w_issues, w_price, w_recency) and the pool it is to rank.
RankInit ==
    /\ variant = "none"
    /\ arms = << >>
    /\ alpha_prior = 0
    /\ beta_prior = 0
    /\ epsilon = 0
    /\ heap = << >>
    /\ contextual_state = << >>
    /\ last = NoCall
    /\ ncalls = 0
    /\ referenced = {}
    /\ applied = NoneApplied
    /\ frames = [t \in Threads |-> Idle]
    /\ judged = << >>
    /\ iteration = NoIteration
    /\ conversation = NoConversation
    /\ runner = NoRunner
    /\ batch = NoBatch
    /\ \E w \in WeightSettings, customers \in Pools :
           ranked = [NoRank EXCEPT !.weights = w, !.customers = customers]

rank_returns(top_n, result, scored, ret) ==
    /\ ranked' = [ranked EXCEPT !.top_n = top_n, !.result = result,
                                !.scored = scored, !.ret = ret]
    /\ UNCHANGED <<bandit_vars, judged, iteration, conversation, runner, batch>>

\* rank(customers, top_n)
Rank(top_n) ==
    LET customers == ranked.customers IN
    IF customers = << >>
    THEN rank_returns(top_n, "ok", << >>, << >>)
    ELSE LET prices == [i \in 1..Len(customers) |-> customers[i].price]
             max_price == max(prices)
             recencies == [i \in 1..Len(customers) |-> customers[i].last_purchase_days]
             max_recency == max(recencies)
         IN IF \E i \in 1..Len(customers) : divides_by_zero(customers[i])
            THEN rank_returns(top_n, "ZeroDivisionError", << >>, << >>)
            ELSE LET scored == [i \in 1..Len(customers) |->
                                  compute_score(ranked.weights, customers[i],
                                                max_price, max_recency)]
                     sorted == sort_descending(scored)
                 IN rank_returns(top_n, "ok", scored,
                                 IF truthy(top_n) THEN slice(sorted, top_n) ELSE sorted)

RankNext == \E top_n \in TopNs : Rank(top_n)

RankSpec == RankInit /\ [][RankNext]_vars

----------------------------------------------------------------------------
(* run_iteration of app/streamlit_app.py: the interaction loop.  The policy   *)
(* is seen through the calls made on it; select returns any arm of the arms  *)
(* the policy was built with (the template ids).                             *)

\* Mutant: the error of the LLM call is not caught.
responder_run_uncaught(outcome) ==
    [raised |-> outcome = "raises", message |-> "llm"]

\* ResponderAgent.run / OutreachAgent.run: the text, or on any exception the
\* fallback message
responder_run(outcome) ==
    [raised |-> FALSE, message |-> IF outcome = "raises" THEN "fallback" ELSE "llm"]

\* Judge.run with the call of the runner: any exception gives the default score
judge_run(answer) ==
    IF answer.raised THEN default_score
    ELSE Judge_run(answer.nps, answer.eng, answer.chrn).score

\* (customer.segment, customer.issue_bucket or "atencion")
context_key(customer) ==
    <<customer.segment,
      IF customer.issue_bucket = "" THEN "atencion" ELSE customer.issue_bucket>>

\* Prioritizer().rank(non_vocal, top_n=outreach_n), the customers themselves
rank_customers(customers, top_n) ==
    IF customers = << >> THEN << >>
    ELSE LET max_price == max([i \in 1..Len(customers) |-> customers[i].price])
             max_recency == max([i \in 1..Len(customers) |->
                                   customers[i].last_purchase_days])
             scored == [i \in 1..Len(customers) |->
                          compute_score(<<5, 3, 2>>, customers[i], max_price, max_recency)]
             sorted == sort_descending(scored)
             kept == IF truthy(top_n) THEN slice(sorted, top_n) ELSE sorted
         IN [k \in 1..Len(kept) |-> customers[kept[k]]]

is_vocal(c) == c.is_vocal
not_vocal(c) == ~c.is_vocal

iteration_vars == <<bandit_vars, judged, ranked, conversation, runner, batch>>

\* run_iteration is entered: vocal_customers = [c for c in customers if c.is_vocal]
RunIteration(customers, outreach_n) ==
    /\ iteration.pc = "idle"
    /\ iteration' = [pc |-> "for", phase |-> "vocal", customers |-> customers,
                     outreach_n |-> outreach_n,
                     queue |-> SelectSeq(customers, is_vocal), ranked |-> << >>,
                     arm |-> "", message |-> "", score |-> default_score,
                     calls |-> << >>]
    /\ UNCHANGED iteration_vars

\* for customer in ...: ctx, context_key, arm = policy.select(context=context_key)
LoopSelect(arm) ==
    /\ iteration.pc = "for"
    /\ iteration.queue # << >>
    /\ iteration' = [iteration EXCEPT
                        !.pc = "respond", !.arm = arm,
                        !.calls = Append(@, [op |-> "select",
                                             context |-> context_key(iteration.queue[1]),
                                             arm |-> arm, reward |-> 0,
                                             score |-> default_score])]
    /\ UNCHANGED iteration_vars

\* draft, message = responder.run(ctx, draft), and the safety check with its
\* fallback message
LoopRespond(outcome, is_safe) ==
    /\ iteration.pc = "respond"
    /\ LET run == responder_run(outcome)
       IN iteration' = IF run.raised
                       THEN [iteration EXCEPT !.pc = "raised"]
                       ELSE [iteration EXCEPT
                                !.pc = "judge",
                                !.message = IF is_safe THEN run.message ELSE "fallback"]
    /\ UNCHANGED iteration_vars

\* score = judge.run(ctx, message)
LoopJudge(answer) ==
    /\ iteration.pc = "judge"
    /\ iteration' = [iteration EXCEPT !.pc = "update", !.score = judge_run(answer)]
    /\ UNCHANGED iteration_vars

\* reward = compute_reward(score); policy.update(arm, reward, context=context_key);
\* the log entry; on to the next customer
LoopUpdate ==
    /\ iteration.pc = "update"
    /\ iteration' = [iteration EXCEPT
                        !.pc = "for", !.queue = Tail(@), !.arm = "", !.message = "",
                        !.score = default_score,
                        !.calls = Append(@, [op |-> "update",
                                             context |-> context_key(iteration.queue[1]),
                                             arm |-> iteration.arm,
                                             reward |-> compute_reward(iteration.score),
                                             score |-> iteration.score])]
    /\ UNCHANGED iteration_vars

\* The vocal customers are done: ranked = prioritizer.rank(non_vocal, top_n=outreach_n)
LoopRank ==
    /\ iteration.pc = "for"
    /\ iteration.queue = << >>
    /\ iteration.phase = "vocal"
    /\ LET non_vocal == SelectSeq(iteration.customers, not_vocal)
           out == rank_customers(non_vocal, <<iteration.outreach_n>>)
       IN iteration' = [iteration EXCEPT !.phase = "outreach", !.ranked = out,
                                         !.queue = out]
    /\ UNCHANGED iteration_vars

\* The outreach customers are done: the iteration is completed
LoopDone ==
    /\ iteration.pc = "for"
    /\ iteration.queue = << >>
    /\ iteration.phase = "outreach"
    /\ iteration' = [iteration EXCEPT !.pc = "done"]
    /\ UNCHANGED iteration_vars

LoopNext ==
    \/ \E customers \in Sessions, outreach_n \in OutreachNs :
          RunIteration(customers, outreach_n)
    \/ \E arm \in ArmIds : LoopSelect(arm)
    \/ \E outcome \in ResponderOutcomes, is_safe \in BOOLEAN : LoopRespond(outcome, is_safe)
    \/ \E answer \in JudgeAnswers : LoopJudge(answer)
    \/ LoopUpdate
    \/ LoopRank
    \/ LoopDone

LoopSpec == Init /\ [][LoopNext]_vars

----------------------------------------------------------------------------
(* run_conversation of context_engineering/conversation.py.  An outcome is a *)
(* tuple: <<"max_turns_reached">> or <<role, "signaled_end", trigger>>.      *)

LowerCase == <<"d", "e", "i", "k", "n", "o", "p", "s">>
UpperCase == <<"D", "E", "I", "K", "N", "O", "P", "S">>
Digits == <<"0", "1", "2", "3", "4", "5", "6", "7", "8", "9">>

\* str.upper(), character by character
upper_char(ch) ==
    IF \E i \in 1..Len(LowerCase) : LowerCase[i] = ch
    THEN UpperCase[CHOOSE i \in 1..Len(LowerCase) : LowerCase[i] = ch]
    ELSE ch

upper(text) == [i \in 1..Len(text) |-> upper_char(text[i])]

\* str.strip()
RECURSIVE strip(_)
strip(text) ==
    IF text = << >> THEN text
    ELSE IF text[1] = " " THEN strip(Tail(text))
    ELSE IF text[Len(text)] = " " THEN strip(SubSeq(text, 1, Len(text) - 1))
    ELSE text

\* needle in text
contains(text, needle) ==
    \E i \in 0..(Len(text) - Len(needle)) : SubSeq(text, i + 1, i + Len(needle)) = needle

\* Mutant: the message is compared as written, not in upper case.
check_outcome_as_written(message, triggers, ended_by) ==
    LET normalized == strip(message)
        hits == {i \in 1..Len(triggers) : contains(normalized, upper(triggers[i]))}
    IN IF hits = {} THEN [ended |-> FALSE, outcome |-> << >>]
       ELSE LET first == CHOOSE i \in hits : \A j \in hits : i <= j
            IN [ended |-> TRUE, outcome |-> <<ended_by, "signaled_end", triggers[first]>>]

\* _check_outcome: the first trigger of the list found in the message
check_outcome(message, triggers, ended_by) ==
    LET normalized == upper(strip(message))
        hits == {i \in 1..Len(triggers) : contains(normalized, upper(triggers[i]))}
    IN IF hits = {} THEN [ended |-> FALSE, outcome |-> << >>]
       ELSE LET first == CHOOSE i \in hits : \A j \in hits : i <= j
            IN [ended |-> TRUE, outcome |-> <<ended_by, "signaled_end", triggers[first]>>]

is_word_char(ch) ==
    \/ \E i \in 1..Len(Digits) : Digits[i] = ch
    \/ \E i \in 1..Len(UpperCase) : UpperCase[i] = upper_char(ch)
    \/ ch = "_"

is_digit(ch) == \E i \in 1..Len(Digits) : Digits[i] = ch
digit_value(ch) == (CHOOSE i \in 1..Len(Digits) : Digits[i] = ch) - 1

\* \s*: the first position from i on that holds no blank
RECURSIVE skip_blanks(_, _)
skip_blanks(text, i) ==
    IF i <= Len(text) /\ text[i] = " " THEN skip_blanks(text, i + 1) ELSE i

\* re.search(r"\bNPS\s*[:=]\s*(\d{1,2})", content, re.IGNORECASE): the
\* positions <<start of the number, end of the number>> of the first match,
\* or << >>
nps_search(content) ==
    LET number_at(i) ==
            LET j == skip_blanks(content, i + 3)
                k == skip_blanks(content, j + 1)
            IN IF /\ i + 2 <= Len(content)
                  /\ upper(SubSeq(content, i, i + 2)) = <<"N", "P", "S">>
                  /\ (i = 1 \/ ~is_word_char(content[i - 1]))
                  /\ j <= Len(content) /\ content[j] \in {":", "="}
                  /\ k <= Len(content) /\ is_digit(content[k])
               THEN k ELSE 0
        starts == {i \in 1..Len(content) : number_at(i) > 0}
    IN IF starts = {} THEN << >>
       ELSE LET i == CHOOSE x \in starts : \A y \in starts : x <= y
                k == number_at(i)
            IN IF k + 1 <= Len(content) /\ is_digit(content[k + 1])
               THEN <<k, k + 1>> ELSE <<k, k>>

\* _has_nps_response
has_nps_response(turns) ==
    \E i \in 1..Len(turns) :
        turns[i].role = "customer" /\ nps_search(turns[i].content) # << >>

\* _extract_nps: the number of the last customer turn that gives one, held to
\* [0, 10]; << >> is None
extract_nps(turns) ==
    LET giving == {i \in 1..Len(turns) :
                     turns[i].role = "customer" /\ nps_search(turns[i].content) # << >>}
    IN IF giving = {} THEN << >>
       ELSE LET i == CHOOSE x \in giving : \A y \in giving : y <= x
                m == nps_search(turns[i].content)
                value == IF m[1] = m[2] THEN digit_value(turns[i].content[m[1]])
                         ELSE 10 * digit_value(turns[i].content[m[1]])
                                + digit_value(turns[i].content[m[2]])
            IN << Max(0, Min(10, value)) >>

\* ConversationTurn(role, content, metadata)
ConversationTurn(role, content, metadata) ==
    [role |-> role, content |-> content, metadata |-> metadata]

conversation_vars == <<bandit_vars, judged, ranked, iteration, runner, batch>>

\* run_conversation is entered with a plan
RunConversation(max_turns, end_triggers) ==
    /\ conversation.pc = "idle"
    /\ conversation' = [pc |-> IF max_turns > 0 THEN "agent" ELSE "closing",
                        max_turns |-> max_turns, end_triggers |-> end_triggers,
                        step |-> 0, turns |-> << >>,
                        outcome |-> <<"max_turns_reached">>, ended_by |-> "None",
                        nps_score |-> << >>]
    /\ UNCHANGED conversation_vars

\* The proactive agent's message of this step, its end check, and the break
\* on the last step
AgentTurn(agent_message) ==
    /\ conversation.pc = "agent"
    /\ LET check == check_outcome(agent_message, conversation.end_triggers, "agent")
       IN conversation' =
            IF check.ended
            THEN [conversation EXCEPT
                     !.turns = Append(@, ConversationTurn("agent", agent_message,
                                   [NoMetadata EXCEPT !.outcome = check.outcome])),
                     !.outcome = check.outcome, !.ended_by = "agent",
                     !.pc = "closing"]
            ELSE [conversation EXCEPT
                     !.turns = Append(@, ConversationTurn("agent", agent_message,
                                                          NoMetadata)),
                     !.pc = IF conversation.step = conversation.max_turns - 1
                            THEN "closing" ELSE "customer"]
    /\ UNCHANGED conversation_vars

\* The customer's reply of this step and its end check; then the next step
CustomerTurn(customer_reply) ==
    /\ conversation.pc = "customer"
    /\ LET check == check_outcome(customer_reply, conversation.end_triggers, "customer")
       IN conversation' =
            IF check.ended
            THEN [conversation EXCEPT
                     !.turns = Append(@, ConversationTurn("customer", customer_reply,
                                   [NoMetadata EXCEPT !.outcome = check.outcome])),
                     !.outcome = check.outcome, !.ended_by = "customer",
                     !.pc = "closing"]
            ELSE [conversation EXCEPT
                     !.turns = Append(@, ConversationTurn("customer", customer_reply,
                                                          NoMetadata)),
                     !.step = @ + 1,
                     !.pc = IF conversation.step + 1 < conversation.max_turns
                            THEN "agent" ELSE "closing"]
    /\ UNCHANGED conversation_vars

\* run_text of either runner raises: run_conversation catches nothing
GenerationFails ==
    /\ conversation.pc \in {"agent", "customer"}
       \/ (conversation.pc = "closing" /\ ~has_nps_response(conversation.turns))
    /\ conversation' = [conversation EXCEPT !.pc = "raised"]
    /\ UNCHANGED conversation_vars

\* After the loop, with no NPS answer so far: _ensure_nps_exchange appends the
\* request and the customer's reply; then the result is returned
NpsExchange(customer_reply) ==
    /\ conversation.pc = "closing"
    /\ ~has_nps_response(conversation.turns)
    /\ LET turns == conversation.turns
                        \o << ConversationTurn("agent", NpsRequest,
                                  [NoMetadata EXCEPT !.auto = "nps_request"]),
                              ConversationTurn("customer", customer_reply,
                                  [NoMetadata EXCEPT !.auto = "nps_response"]) >>
       IN conversation' = [conversation EXCEPT
                              !.turns = turns, !.nps_score = extract_nps(turns),
                              !.pc = "returned"]
    /\ UNCHANGED conversation_vars

\* After the loop, with an NPS answer among the turns: the result is returned
ReturnResult ==
    /\ conversation.pc = "closing"
    /\ has_nps_response(conversation.turns)
    /\ conversation' = [conversation EXCEPT
                           !.nps_score = extract_nps(conversation.turns),
                           !.pc = "returned"]
    /\ UNCHANGED conversation_vars

ConversationNext ==
    \/ \E max_turns \in 0..MaxTurns, end_triggers \in TriggerLists :
          RunConversation(max_turns, end_triggers)
    \/ \E agent_message \in AgentMessages : AgentTurn(agent_message)
    \/ \E customer_reply \in CustomerMessages : CustomerTurn(customer_reply)
    \/ GenerationFails
    \/ \E customer_reply \in CustomerMessages : NpsExchange(customer_reply)
    \/ ReturnResult

ConversationSpec == Init /\ [][ConversationNext]_vars

----------------------------------------------------------------------------
(* AgentsRunner._create_response of app/factories/agents_runner.py.  Seconds *)
(* of sleep are exact fractions <<numerator, denominator>>.                  *)

\* b ** n
RECURSIVE pow(_, _)
pow(b, n) == IF n = 0 THEN 1 ELSE b * pow(b, n - 1)

\* Mutant: the sleep grows linearly with the attempt.
sleep_seconds_linear(backoff, attempt) == <<backoff * attempt, ONE>>

\* self.backoff ** attempt, the backoff given in tenths
sleep_seconds(backoff, attempt) == <<pow(backoff, attempt), pow(ONE, attempt)>>

runner_vars == <<bandit_vars, judged, ranked, iteration, conversation, batch>>

\* AgentsRunner.__init__
AgentsRunner(max_retries, backoff) ==
    /\ runner.pc = "none"
    /\ runner' = [pc |-> "ready", max_retries |-> max_retries, backoff |-> backoff,
                  attempt |-> 0, calls |-> 0, failures |-> << >>, sleeps |-> << >>,
                  result |-> "", error |-> ""]
    /\ UNCHANGED runner_vars

\* _create_response is entered: last_exc = None, and the first attempt of
\* range(1, max_retries + 1) if there is one; else the raise after the loop
CreateResponse ==
    /\ runner.pc \in {"ready", "returned", "raised"}
    /\ runner' = [runner EXCEPT
                     !.pc = IF runner.max_retries >= 1 THEN "attempt" ELSE "raised",
                     !.attempt = IF runner.max_retries >= 1 THEN 1 ELSE 0,
                     !.calls = 0, !.failures = << >>, !.sleeps = << >>,
                     !.result = "",
                     !.error = IF runner.max_retries >= 1 THEN "" ELSE "RuntimeError"]
    /\ UNCHANGED runner_vars

\* client.responses.create returns: so does _create_response
ApiReturns ==
    /\ runner.pc = "attempt"
    /\ runner' = [runner EXCEPT !.calls = @ + 1, !.result = "response",
                                !.pc = "returned"]
    /\ UNCHANGED runner_vars

\* client.responses.create raises: the exception is kept and logged; after the
\* last attempt the loop is left and RuntimeError raised, else the sleep begins
ApiRaises(exc) ==
    /\ runner.pc = "attempt"
    /\ runner' = [runner EXCEPT
                     !.calls = @ + 1, !.failures = Append(@, exc),
                     !.pc = IF runner.attempt = runner.max_retries
                            THEN "raised" ELSE "sleep",
                     !.error = IF runner.attempt = runner.max_retries
                               THEN "RuntimeError" ELSE ""]
    /\ UNCHANGED runner_vars

\* time.sleep(self.backoff ** attempt) is over: the next attempt
Sleep ==
    /\ runner.pc = "sleep"
    /\ runner' = [runner EXCEPT
                     !.sleeps = Append(@, sleep_seconds(runner.backoff, runner.attempt)),
                     !.attempt = @ + 1, !.pc = "attempt"]
    /\ UNCHANGED runner_vars

RetryNext ==
    \/ \E max_retries \in 0..MaxRetries, backoff \in Backoffs :
          AgentsRunner(max_retries, backoff)
    \/ CreateResponse
    \/ ApiReturns
    \/ \E exc \in ApiErrors : ApiRaises(exc)
    \/ Sleep

RetrySpec == Init /\ [][RetryNext]_vars

----------------------------------------------------------------------------
(* run_iteration of context_engineering/example_runner.py with a thread      *)
(* pool.  A profile is known by its index; records is the dict of the main   *)
(* thread, kept as the sequence of its keys in insertion order.              *)

\* Mutant: the summaries are the records in the order they were stored.
build_summaries_as_stored(n, records) == records

\* for idx, _ in indexed_profiles: if idx in records: summaries.append(...)
build_summaries(n, records) ==
    LET stored(idx) == \E k \in 1..Len(records) : records[k] = idx
    IN SelectSeq([i \in 1..n |-> i - 1], stored)

\* _process_profile's return value for an outcome: (idx, record or None, log)
process_profile(idx, outcome) ==
    [idx |-> idx, record |-> IF outcome = "record" THEN <<idx>> ELSE None]

batch_vars == <<bandit_vars, judged, ranked, iteration, conversation, runner>>

\* run_iteration is entered: no profile, return []; else every profile is
\* submitted to the pool
RunBatch(n, concurrency) ==
    /\ batch.pc = "idle"
    /\ batch' = [pc |-> IF n = 0 THEN "returned" ELSE "pool",
                 n |-> n, concurrency |-> concurrency,
                 futures |-> [idx \in 0..(n - 1) |-> "pending"],
                 results |-> [idx \in 0..(n - 1) |-> None],
                 records |-> << >>, summaries |-> << >>]
    /\ UNCHANGED batch_vars

\* A free worker thread takes the oldest pending submission
WorkerStart(idx) ==
    /\ batch.pc = "pool"
    /\ batch.futures[idx] = "pending"
    /\ \A j \in 0..(idx - 1) : batch.futures[j] # "pending"
    /\ Cardinality({j \in DOMAIN batch.futures : batch.futures[j] = "running"})
          < batch.concurrency
    /\ batch' = [batch EXCEPT !.futures[idx] = "running"]
    /\ UNCHANGED batch_vars

\* _process_profile of one profile returns in its thread
WorkerFinish(idx, outcome) ==
    /\ batch.pc = "pool"
    /\ batch.futures[idx] = "running"
    /\ batch' = [batch EXCEPT !.futures[idx] = "finished",
                              !.results[idx] = <<process_profile(idx, outcome)>>]
    /\ UNCHANGED batch_vars

\* as_completed yields a finished future: its record, if any, is stored
Collect(idx) ==
    /\ batch.pc = "pool"
    /\ batch.futures[idx] = "finished"
    /\ LET result == batch.results[idx][1]
       IN batch' = [batch EXCEPT
                       !.futures[idx] = "yielded",
                       !.records = IF result.record # None
                                   THEN Append(@, result.idx) ELSE @]
    /\ UNCHANGED batch_vars

\* Every future was yielded: the summaries are built and returned
ReturnSummaries ==
    /\ batch.pc = "pool"
    /\ \A idx \in DOMAIN batch.futures : batch.futures[idx] = "yielded"
    /\ batch' = [batch EXCEPT
                    !.summaries = build_summaries(batch.n, batch.records),
                    !.pc = "returned"]
    /\ UNCHANGED batch_vars

BatchNext ==
    \/ \E n \in 0..MaxProfiles, concurrency \in Concurrencies : RunBatch(n, concurrency)
    \/ \E idx \in 0..(MaxProfiles - 1) :
          /\ batch.pc = "pool" /\ idx \in DOMAIN batch.futures
          /\ \/ WorkerStart(idx)
             \/ \E outcome \in ProfileOutcomes : WorkerFinish(idx, outcome)
             \/ Collect(idx)
    \/ ReturnSummaries

BatchSpec == Init /\ [][BatchNext]_vars

----------------------------------------------------------------------------
(* What the claims speak of *)

\* The prior every arm of a fresh arm-state dict holds.
Prior ==
    IF variant = "ThompsonBandit"
    THEN [alpha |-> alpha_prior, beta |-> beta_prior]
    ELSE [total_reward |-> 0, count |-> 0]

\* The statistics of a context under heap h and contextual_state cs: the
\* stored arm-state dict, or for a context not referenced yet the priors.
StateIn(h, cs, context) ==
    IF context = None THEN h[global_state]
    ELSE IF has_context(cs, context) THEN h[lookup(cs, context)]
    ELSE [a \in Keys(arms) |-> Prior]

Before(context) == StateIn(heap, contextual_state, context)
After(context) == StateIn(heap', contextual_state', context)

\* What get_statistics(context) reports of an arm-state dict.
Reported(state) ==
    IF variant = "ThompsonBandit" THEN ThompsonStats(state) ELSE EpsilonStats(state)

ArmSet == Keys(arms)
IsCall(op) == ncalls' = ncalls + 1 /\ last'.op = op
UpdateApplied == IsCall("update") /\ last'.result = "ok"
Refs == 1..Len(heap)

----------------------------------------------------------------------------
\* C1: with updates made concurrently (interleaved with selects), no update is
\* lost: once every call has returned, each (context, arm) holds the prior plus
\* the sum of the clamped rewards (alpha, total_reward), and the prior plus the
\* sum of 1 - clamped reward (beta), or the number of updates (count).
AllReturned == \A t \in Threads : frames[t].pc = "idle"

C1_NoUpdateLost ==
    (variant # "none" /\ AllReturned) =>
        \A c \in AllContexts : \A a \in ArmSet :
            IF variant = "ThompsonBandit"
            THEN /\ Before(c)[a].alpha - alpha_prior = applied[c][a].sum
                 /\ Before(c)[a].beta - beta_prior = 10 * applied[c][a].n - applied[c][a].sum
            ELSE /\ Before(c)[a].total_reward = applied[c][a].sum
                 /\ Before(c)[a].count = applied[c][a].n

----------------------------------------------------------------------------
\* C2: whatever the rewards (below 0 and above 1 included), every Thompson arm
\* state has alpha >= prior alpha and beta >= prior beta, every epsilon-greedy
\* arm state has count >= 0, and no step lowers alpha, beta, total_reward or
\* count of an arm state.
C2_AbovePriors ==
    \A ref \in Refs : \A arm \in DOMAIN heap[ref] :
        IF variant = "ThompsonBandit"
        THEN heap[ref][arm].alpha >= alpha_prior /\ heap[ref][arm].beta >= beta_prior
        ELSE heap[ref][arm].count >= 0

C2_NoDecrease ==
    \A c \in AllContexts : \A arm \in DOMAIN Before(c) :
        IF variant = "ThompsonBandit"
        THEN /\ After(c)[arm].alpha >= Before(c)[arm].alpha
             /\ After(c)[arm].beta >= Before(c)[arm].beta
        ELSE /\ After(c)[arm].total_reward >= Before(c)[arm].total_reward
             /\ After(c)[arm].count >= Before(c)[arm].count

C2_ParametersNeverDecrease ==
    [](variant # "none" => C2_AbovePriors)
    /\ [][variant # "none" => C2_NoDecrease]_vars

C2_Witness ==
    /\ last.op = "update" /\ last.result = "ok"
    /\ last.reward > ONE
    /\ \E c \in AllContexts : \E a \in ArmIds : applied[c][a].n >= 1 /\ applied[c][a].sum = 0

----------------------------------------------------------------------------
\* C3: a Thompson update with an arm of the arm set adds the clamped reward r
\* to alpha and 1 - r to beta of the addressed (context, arm), so alpha + beta
\* of that pair grows by exactly 1.
C3_Step ==
    (UpdateApplied /\ variant = "ThompsonBandit") =>
        LET c == last'.context
            a == last'.arm
            r == Clamped(last'.reward)
        IN /\ a \in ArmSet
           /\ After(c)[a].alpha = Before(c)[a].alpha + r
           /\ After(c)[a].beta = Before(c)[a].beta + (10 - r)
           /\ After(c)[a].alpha + After(c)[a].beta
                = Before(c)[a].alpha + Before(c)[a].beta + 10

C3_ThompsonUpdateFolds == [][C3_Step]_vars

C3_Witness ==
    /\ variant = "ThompsonBandit"
    /\ last.op = "update" /\ last.result = "ok" /\ last.reward = 3
    /\ applied[last.context][last.arm].n = 2

----------------------------------------------------------------------------
\* C4: an epsilon-greedy update with an arm of the arm set adds the clamped
\* reward to total_reward and 1 to count of the addressed (context, arm); so
\* count is the number of updates addressed to the pair and
\* 0 <= total_reward <= count.
C4_Step ==
    (UpdateApplied /\ variant = "EpsilonGreedyBandit") =>
        LET c == last'.context
            a == last'.arm
            r == Clamped(last'.reward)
        IN /\ a \in ArmSet
           /\ After(c)[a].total_reward = Before(c)[a].total_reward + r
           /\ After(c)[a].count = Before(c)[a].count + 1

C4_Counts ==
    variant = "EpsilonGreedyBandit" =>
        \A c \in AllContexts : \A a \in ArmSet :
            /\ Before(c)[a].count = applied[c][a].n
            /\ 0 <= Before(c)[a].total_reward
            /\ Before(c)[a].total_reward <= 10 * Before(c)[a].count

C4_EpsilonUpdateFolds == []C4_Counts /\ [][C4_Step]_vars

C4_Witness ==
    /\ variant = "EpsilonGreedyBandit"
    /\ last.op = "update" /\ last.result = "ok"
    /\ applied[last.context][last.arm].n = 2
    /\ applied[last.context][last.arm].sum = 13

----------------------------------------------------------------------------
\* C5: update with an arm outside the arm set fails (KeyError, the unknown-arm
\* condition) for both variants, whether the context is the global one, one
\* seen before or one never seen; update with an arm of the arm set and a
\* context never seen does not fail and creates the context.
C5_Step ==
    IsCall("update") =>
        /\ last'.arm \notin ArmSet => last'.result = "KeyError"
        /\ (last'.arm \in ArmSet /\ last'.context # None
              /\ ~has_context(contextual_state, last'.context))
            => (last'.result = "ok" /\ has_context(contextual_state', last'.context))

C5_UnknownArmFails == [][C5_Step]_vars

C5_Witness ==
    /\ last.op = "update" /\ last.arm = UnknownArm /\ last.result = "KeyError"
    /\ last.context \in Contexts
    /\ arms = <<"A", "B">>
    /\ Len(contextual_state) = 2

----------------------------------------------------------------------------
\* C6: no policy object with zero arms exists: __init__ with an empty arm list
\* fails with EmptyArmSet.
C6_EmptyArmSetRejected == variant # "none" => arms # << >>

----------------------------------------------------------------------------
\* C7: update changes the state of the addressed (context, arm) pair only:
\* every other arm of that context, every arm of every other context and of
\* the global map keep their statistics, and an update without context leaves
\* contextual_state as it is.
C7_Step ==
    IsCall("update") =>
        /\ \A c \in AllContexts : \A a \in ArmSet :
              (c # last'.context \/ a # last'.arm) => After(c)[a] = Before(c)[a]
        /\ last'.context = None => contextual_state' = contextual_state

C7_UpdateTouchesOnePair == [][C7_Step]_vars

C7_Witness ==
    /\ last.op = "update" /\ last.result = "ok" /\ last.context \in Contexts
    /\ \E a \in ArmIds : applied[None][a].n = 1
    /\ \E c \in Contexts : c # last.context /\ \E a \in ArmIds : applied[c][a].n = 1

----------------------------------------------------------------------------
\* C8: a context's arm-state dict is created, on the first reference to it,
\* with the arms of the arm set all at the prior (the call that creates it may
\* be an update, which then has folded its reward into its own arm); and every
\* context dict and the global dict has the arm set as its keys, always.
C8_Keys ==
    /\ variant # "none" => DOMAIN heap[global_state] = ArmSet
    /\ \A i \in 1..Len(contextual_state) : DOMAIN heap[contextual_state[i].ref] = ArmSet

C8_PriorPlus(reward) ==
    IF variant = "ThompsonBandit"
    THEN [alpha |-> alpha_prior + Clamped(reward),
          beta |-> beta_prior + (10 - Clamped(reward))]
    ELSE [total_reward |-> Clamped(reward), count |-> 1]

C8_Created ==
    \A c \in Contexts :
        (~has_context(contextual_state, c) /\ has_context(contextual_state', c)) =>
            LET new == heap'[lookup(contextual_state', c)]
            IN /\ DOMAIN new = ArmSet
               /\ \A a \in ArmSet :
                    IF UpdateApplied /\ last'.context = c /\ last'.arm = a
                    THEN new[a] = C8_PriorPlus(last'.reward)
                    ELSE new[a] = Prior

C8_LazyContextSeededWithPriors == []C8_Keys /\ [][C8_Created]_vars

C8_Witness ==
    /\ arms = <<"A", "B">>
    /\ Len(contextual_state) = 1
    /\ \E a \in ArmIds : applied[None][a].n = 2
    /\ last.op = "select" /\ last.context \in Contexts

----------------------------------------------------------------------------
\* C9: get_all_contexts() lists every context other than None that was passed
\* to select or update, lists no context twice and never lists None.
C9_Lists(l) ==
    /\ (referenced \ {None}) \subseteq Keys(l)
    /\ \A i, j \in 1..Len(l) : l[i] = l[j] => i = j
    /\ None \notin Keys(l)

C9_ContextsListed ==
    /\ C9_Lists(get_all_contexts)
    /\ last.op = "get_all_contexts" => C9_Lists(last.ret)

C9_Witness ==
    /\ last.op = "get_all_contexts" /\ Len(last.ret) = 2
    /\ Contexts \subseteq referenced

----------------------------------------------------------------------------
\* C10: select mutates no statistics: for every context, seen or not, what
\* get_statistics would report is the same after a select call as before it.
C10_Step ==
    IsCall("select") => \A c \in AllContexts : Reported(After(c)) = Reported(Before(c))

C10_SelectReadsOnly == [][C10_Step]_vars

C10_Witness ==
    /\ last.op = "select" /\ last.result = "ok"
    /\ \E a \in ArmIds : applied[last.context][a].n = 2

----------------------------------------------------------------------------
\* C11: with epsilon = 0 an epsilon-greedy select returns an arm whose sample
\* mean (0.0 with no pulls) is the maximum over the arm set in the context,
\* and the arm is a function of the state: of the arms that tie for the
\* maximum it is the first in the order of the arm list.
C11_Mean(s) == IF s.count > 0 THEN <<s.total_reward, s.count>> ELSE <<0, 1>>

C11_AtLeast(x, y) == x[1] * y[2] >= y[1] * x[2]

C11_IsMax(state, a) == \A b \in ArmSet : C11_AtLeast(C11_Mean(state[a]), C11_Mean(state[b]))

C11_Step ==
    (IsCall("select") /\ variant = "EpsilonGreedyBandit" /\ epsilon = 0
        /\ arms # << >>) =>
        LET state == After(last'.context)
            i == CHOOSE k \in 1..Len(arms) : arms[k] = last'.ret
        IN /\ last'.result = "ok"
           /\ last'.ret \in ArmSet
           /\ C11_IsMax(state, last'.ret)
           /\ \A j \in 1..(i - 1) : ~C11_IsMax(state, arms[j])
           /\ Reported(state) = Reported(Before(last'.context))

C11_GreedySelectDeterministic == [][C11_Step]_vars

C11_Witness ==
    /\ variant = "EpsilonGreedyBandit" /\ epsilon = 0
    /\ last.op = "select" /\ last.result = "ok" /\ last.ret = "A"
    /\ applied[last.context]["A"] = [n |-> 1, sum |-> 3]
    /\ applied[last.context]["B"] = [n |-> 1, sum |-> 3]

----------------------------------------------------------------------------
\* C12: a Thompson select draws one sample for every arm of the arm set and
\* returns an arm of the arm set whose sample is at least every other arm's.
C12_SelectReturnsMaxSample ==
    (last.op = "select" /\ variant = "ThompsonBandit" /\ last.result = "ok") =>
        /\ DOMAIN last.samples = ArmSet
        /\ last.ret \in ArmSet
        /\ \A a \in ArmSet : last.samples[a] <= last.samples[last.ret]

C12_Witness ==
    /\ variant = "ThompsonBandit"
    /\ last.op = "select" /\ last.result = "ok" /\ last.ret = "B"
    /\ last.samples["A"] < last.samples["B"]
    /\ \E a \in ArmIds : applied[last.context][a].n = 1

----------------------------------------------------------------------------
\* C13: for every evaluation with satisfaction in [0,10] and engagement and
\* churn in [0,1] the reward is clamp((0.6*satisfaction + 3*engagement
\* - 3*churn)/10, 0, 1), and it lies in [0,1].
C13_InDomain(e) ==
    /\ 0 <= e.NPS_expected /\ e.NPS_expected <= 100
    /\ 0 <= e.EngagementProb /\ e.EngagementProb <= 10
    /\ 0 <= e.ChurnProb /\ e.ChurnProb <= 10

C13_Formula(e) ==
    LET x == 6 * e.NPS_expected + 30 * e.EngagementProb - 30 * e.ChurnProb
    IN IF x < 0 THEN 0 ELSE IF x > 1000 THEN 1000 ELSE x

C13_RewardInUnitInterval ==
    \A i \in 1..Len(judged) :
        C13_InDomain(judged[i].raw) =>
            /\ judged[i].built = "ok"
            /\ judged[i].reward = C13_Formula(judged[i].raw)
            /\ 0 <= judged[i].reward /\ judged[i].reward <= 1000

C13_Witness ==
    /\ Len(judged) = 2
    /\ judged[1].raw = Score(0, 0, 10) /\ judged[1].reward = 0
    /\ judged[2].raw = Score(100, 10, 0) /\ judged[2].reward = 900

----------------------------------------------------------------------------
\* C14: over in-domain evaluations the reward never falls when satisfaction
\* or engagement is raised with the other two sub-scores fixed, and never
\* rises when churn is raised with the other two fixed.
C14_RewardMonotone ==
    (Len(judged) = 2 /\ C13_InDomain(judged[1].raw) /\ C13_InDomain(judged[2].raw)) =>
        LET a == judged[1].raw
            b == judged[2].raw
            ra == judged[1].reward
            rb == judged[2].reward
        IN /\ (a.NPS_expected <= b.NPS_expected
                 /\ a.EngagementProb = b.EngagementProb
                 /\ a.ChurnProb = b.ChurnProb) => ra <= rb
           /\ (a.EngagementProb <= b.EngagementProb
                 /\ a.NPS_expected = b.NPS_expected
                 /\ a.ChurnProb = b.ChurnProb) => ra <= rb
           /\ (a.ChurnProb <= b.ChurnProb
                 /\ a.NPS_expected = b.NPS_expected
                 /\ a.EngagementProb = b.EngagementProb) => ra >= rb

C14_Witness ==
    /\ Len(judged) = 2
    /\ judged[1].raw = Score(50, 5, 0) /\ judged[2].raw = Score(50, 5, 10)
    /\ judged[1].built = "ok" /\ judged[2].built = "ok"
    /\ judged[1].reward > judged[2].reward

----------------------------------------------------------------------------
----------------------------------------------------------------------------
\* C16: the customers rank returns are in non-increasing order of score, and
\* of two returned customers with equal score the one that came earlier in
\* the input pool comes earlier in the result, for every pool and weights.
C16_Score(i) == ranked.scored[i].score

C16_Geq(x, y) == x[1] * y[2] >= y[1] * x[2]

C16_RankSortedStable ==
    (ranked.result = "ok") =>
        /\ \A k \in 1..Len(ranked.ret) : ranked.ret[k] \in 1..Len(ranked.customers)
        /\ \A k, l \in 1..Len(ranked.ret) :
              k < l =>
                 /\ ranked.ret[k] # ranked.ret[l]
                 /\ C16_Geq(C16_Score(ranked.ret[k]), C16_Score(ranked.ret[l]))
                 /\ C16_Geq(C16_Score(ranked.ret[l]), C16_Score(ranked.ret[k]))
                       => ranked.ret[k] < ranked.ret[l]
        /\ \A k \in 1..Len(ranked.ret), i \in 1..Len(ranked.customers) :
              (\A l \in 1..Len(ranked.ret) : ranked.ret[l] # i)
                  => C16_Geq(C16_Score(ranked.ret[k]), C16_Score(i))

C16_Witness ==
    /\ ranked.result = "ok" /\ ranked.weights = <<5, 3, 2>>
    /\ Len(ranked.customers) = 2 /\ ranked.ret = <<1, 2>>
    /\ ranked.customers[1].issues_flag = 0 /\ ranked.customers[2].issues_flag = 1
    /\ C16_Geq(C16_Score(1), C16_Score(2)) /\ C16_Geq(C16_Score(2), C16_Score(1))

----------------------------------------------------------------------------
\* C17: for every pool and every non-negative integer k given as top_n, rank
\* returns min(k, len(pool)) customers.
C17_TopNRespected ==
    (ranked.result = "ok" /\ ranked.top_n # None) =>
        Len(ranked.ret) = IF ranked.top_n[1] <= Len(ranked.customers)
                          THEN ranked.top_n[1] ELSE Len(ranked.customers)

\* What the code does: top_n = 0 is taken as no limit.
C17_TopNRespectedButZero ==
    (ranked.result = "ok" /\ ranked.top_n # None) =>
        Len(ranked.ret) = IF ranked.top_n[1] = 0 THEN Len(ranked.customers)
                          ELSE IF ranked.top_n[1] <= Len(ranked.customers)
                          THEN ranked.top_n[1] ELSE Len(ranked.customers)

C17_ZeroReturnsPool ==
    /\ ranked.result = "ok" /\ ranked.top_n = <<0>>
    /\ Len(ranked.customers) = 2 /\ Len(ranked.ret) = 2

----------------------------------------------------------------------------
\* C18: rank never divides by zero: scoring completes for every customer of
\* every pool, the price component of every score is 0 when the maximum
\* price of the pool is 0, and the recency component of every score is 0
\* when the maximum days-since-purchase of the pool is 0.
C18_MaxOf(seq) == CHOOSE m \in Keys(seq) : \A i \in 1..Len(seq) : seq[i] <= m

C18_Degenerate ==
    LET n == Len(ranked.customers)
        max_price == C18_MaxOf([i \in 1..n |-> ranked.customers[i].price])
        max_days == C18_MaxOf([i \in 1..n |-> ranked.customers[i].last_purchase_days])
    IN (n > 0) =>
          /\ Len(ranked.scored) = n
          /\ max_price = 0 => \A i \in 1..n : ranked.scored[i].price_score[1] = 0
          /\ max_days = 0 => \A i \in 1..n : ranked.scored[i].recency_score[1] = 0

C18_NeverDividesByZero ==
    (ranked.result # "none") => (ranked.result = "ok" /\ C18_Degenerate)

\* What the code does when no customer has last_purchase_days = -1.
C18_DegenerateWhenScored ==
    (ranked.result = "ok") => C18_Degenerate

C18_DivisionByZero ==
    /\ ranked.result = "ZeroDivisionError"
    /\ Len(ranked.customers) = 1 /\ ranked.customers[1].last_purchase_days = -1

C18_DegeneratePool ==
    /\ ranked.result = "ok" /\ Len(ranked.customers) = 2
    /\ \A i \in 1..2 : ranked.customers[i].price = 0
                       /\ ranked.customers[i].last_purchase_days = 0
    /\ ranked.weights = <<5, 3, 2>> /\ ranked.ret = <<2, 1>>

----------------------------------------------------------------------------
\* C19: a get_statistics call that runs concurrently with update calls never
\* reports a partially applied update: every (alpha, beta) pair it returns has
\* alpha + beta = prior alpha + prior beta + k for a number k of updates.
C19_NoPartialUpdateReported ==
    (last.op = "get_statistics" /\ last.result = "ok" /\ variant = "ThompsonBandit") =>
        \A a \in DOMAIN last.ret :
            \E k \in 0..MaxThreadCalls :
                last.ret[a].alpha + last.ret[a].beta = alpha_prior + beta_prior + 10 * k

C19_TornPair ==
    /\ last.op = "get_statistics" /\ last.result = "ok" /\ variant = "ThompsonBandit"
    /\ last.ret["A"].alpha = alpha_prior + 3 /\ last.ret["A"].beta = beta_prior

----------------------------------------------------------------------------
\* C20: the arm-state map of a context is created once: no step replaces the
\* map of a context to which an update has already been applied.
C20_Step ==
    \A c \in Contexts :
        (has_context(contextual_state, c) /\ \E a \in ArmSet : applied[c][a].n > 0) =>
            lookup(contextual_state', c) = lookup(contextual_state, c)

C20_ContextCreatedOnce == [][C20_Step]_vars

C20_UpdateDiscarded ==
    /\ AllReturned
    /\ \E c \in Contexts :
          /\ has_context(contextual_state, c)
          /\ applied[c]["A"].n = 1
          /\ \A a \in ArmSet : Before(c)[a] = Prior

----------------------------------------------------------------------------
\* C21: with positive priors a Thompson update with reward 1.0 strictly raises
\* the posterior mean alpha/(alpha+beta) of its arm and leaves it below 1, an
\* update with reward 0.0 strictly lowers it and leaves it above 0, and after
\* N updates of reward 1.0 from priors (a0, b0) the mean is (a0+N)/(a0+b0+N).
C21_Less(x, y) == x[1] * y[2] < y[1] * x[2]

C21_Step ==
    (UpdateApplied /\ variant = "ThompsonBandit" /\ alpha_prior > 0 /\ beta_prior > 0) =>
        LET c == last'.context
            a == last'.arm
            m0 == Reported(Before(c))[a].mean
            m1 == Reported(After(c))[a].mean
        IN /\ m0[2] > 0 /\ m1[2] > 0
           /\ last'.reward = 10 => (C21_Less(m0, m1) /\ C21_Less(m1, <<1, 1>>))
           /\ last'.reward = 0 => (C21_Less(m1, m0) /\ C21_Less(<<0, 1>>, m1))

C21_AfterN ==
    (variant = "ThompsonBandit") =>
        \A c \in AllContexts : \A a \in ArmSet :
            (applied[c][a].sum = 10 * applied[c][a].n) =>
                LET m == Reported(Before(c))[a].mean
                    N == applied[c][a].n
                IN m[1] * (alpha_prior + beta_prior + 10 * N)
                      = (alpha_prior + 10 * N) * m[2]

C21_PosteriorMeanMoves == []C21_AfterN /\ [][C21_Step]_vars

C21_Witness ==
    /\ variant = "ThompsonBandit" /\ alpha_prior = 20 /\ beta_prior = 5
    /\ last.op = "update" /\ last.result = "ok" /\ last.reward = 10
    /\ applied[last.context][last.arm] = [n |-> 3, sum |-> 30]

----------------------------------------------------------------------------
\* C26: for the Thompson variant get_statistics reports, for each arm, n_pulls
\* equal to the number of updates applied to that (context, arm), whatever
\* priors the policy was constructed with.
C26_PullsCountUpdates ==
    (last.op = "get_statistics" /\ last.result = "ok" /\ variant = "ThompsonBandit") =>
        \A a \in DOMAIN last.ret :
            last.ret[a].n_pulls = 10 * applied[last.context][a].n

\* What the code does: n_pulls counts the updates when alpha_prior + beta_prior = 2.
C26_PullsCountUpdatesDefaultPriors ==
    (last.op = "get_statistics" /\ last.result = "ok" /\ variant = "ThompsonBandit"
        /\ alpha_prior + beta_prior = 20) =>
        \A a \in DOMAIN last.ret :
            last.ret[a].n_pulls = 10 * applied[last.context][a].n

C26_PullsOffByPriors ==
    /\ last.op = "get_statistics" /\ last.result = "ok" /\ variant = "ThompsonBandit"
    /\ alpha_prior = 20 /\ beta_prior = 5 /\ arms = <<"A", "B">>
    /\ applied[last.context]["A"].n = 0 /\ last.ret["A"].n_pulls = 5

----------------------------------------------------------------------------
\* C27: an update that fails because its arm is not in the arm set leaves the
\* policy unchanged: the statistics of every (context, arm) and the list of
\* contexts are the same after the failed call as before it.
C27_Step ==
    (IsCall("update") /\ last'.result = "KeyError") =>
        /\ \A c \in AllContexts : Reported(After(c)) = Reported(Before(c))
        /\ get_all_contexts' = get_all_contexts

C27_FailedUpdateChangesNothing == [][C27_Step]_vars

\* What the code does: the statistics stay, the context is registered.
C27_StatisticsStep ==
    (IsCall("update") /\ last'.result = "KeyError") =>
        /\ \A c \in AllContexts : Reported(After(c)) = Reported(Before(c))
        /\ (last'.context # None /\ ~has_context(contextual_state, last'.context))
              => get_all_contexts'
                   = Append(get_all_contexts, last'.context)

C27_FailedUpdateKeepsStatistics == [][C27_StatisticsStep]_vars

----------------------------------------------------------------------------
\* C28: get_statistics is a pure read: for any context, referenced before or
\* not, it changes no arm statistic and not the list of contexts.
C28_Step ==
    IsCall("get_statistics") =>
        /\ \A c \in AllContexts : Reported(After(c)) = Reported(Before(c))
        /\ get_all_contexts' = get_all_contexts

C28_GetStatisticsReadsOnly == [][C28_Step]_vars

\* What the code does: the statistics stay, an unseen context is registered.
C28_StatisticsStep ==
    IsCall("get_statistics") =>
        /\ \A c \in AllContexts : Reported(After(c)) = Reported(Before(c))
        /\ (last'.context # None /\ ~has_context(contextual_state, last'.context))
              => get_all_contexts'
                   = Append(get_all_contexts, last'.context)

C28_GetStatisticsKeepsStatistics == [][C28_StatisticsStep]_vars

----------------------------------------------------------------------------
\* C29: rank without top_n returns a permutation of the pool, and rank with
\* top_n = k returns the first min(k, len(pool)) elements of that permutation.
C29_Full == sort_descending(ranked.scored)

C29_TopNIsPrefix ==
    (ranked.result = "ok") =>
        /\ Len(C29_Full) = Len(ranked.customers)
        /\ Keys(C29_Full) = 1..Len(ranked.customers)
        /\ ranked.top_n = None => ranked.ret = C29_Full
        /\ ranked.top_n # None =>
              ranked.ret = SubSeq(C29_Full, 1,
                                  IF ranked.top_n[1] <= Len(ranked.customers)
                                  THEN ranked.top_n[1] ELSE Len(ranked.customers))

\* What the code does: top_n = 0 returns the whole permutation.
C29_TopNIsPrefixButZero ==
    (ranked.result = "ok" /\ ranked.top_n # <<0>>) => C29_TopNIsPrefix

C29_ZeroIsNoPrefix ==
    /\ ranked.result = "ok" /\ ranked.top_n = <<0>>
    /\ Len(ranked.customers) = 2 /\ ranked.ret = <<2, 1>>

----------------------------------------------------------------------------
\* C22: in one run of the interaction loop every processed customer (the vocal
\* ones, then the ranked outreach ones) causes one select followed by one
\* update on the same context key, with the arm select returned and the
\* reward transform of the evaluator's score; no select is left without its
\* update, also when message generation or evaluation fails.
C22_Key(c) == <<c.segment, IF c.issue_bucket = "" THEN "atencion" ELSE c.issue_bucket>>

C22_Processed ==
    LET vocal == SelectSeq(iteration.customers, is_vocal)
    IN IF iteration.phase = "vocal"
       THEN SubSeq(vocal, 1, Len(vocal) - Len(iteration.queue))
       ELSE vocal \o SubSeq(iteration.ranked, 1,
                            Len(iteration.ranked) - Len(iteration.queue))

C22_Paired(calls) ==
    \A i \in 1..Len(calls) :
        IF i % 2 = 1
        THEN calls[i].op = "select" /\ calls[i].arm \in ArmIds
        ELSE /\ calls[i].op = "update"
             /\ calls[i].context = calls[i - 1].context
             /\ calls[i].arm = calls[i - 1].arm
             /\ calls[i].reward = C13_Formula(calls[i].score)

C22_SelectThenUpdate ==
    (iteration.pc # "idle") =>
        /\ C22_Paired(iteration.calls)
        /\ iteration.pc \in {"for", "respond", "judge", "update", "done"}
        /\ iteration.pc \in {"for", "done"} =>
              /\ Len(iteration.calls) = 2 * Len(C22_Processed)
              /\ \A k \in 1..Len(C22_Processed) :
                    iteration.calls[2 * k].context = C22_Key(C22_Processed[k])
        /\ iteration.pc \in {"respond", "judge", "update"} =>
              /\ Len(iteration.calls) = 2 * Len(C22_Processed) + 1
              /\ iteration.calls[Len(iteration.calls)].context
                    = C22_Key(iteration.queue[1])
        /\ iteration.pc = "done" =>
              /\ iteration.queue = << >>
              /\ Len(C22_Processed) = Len(iteration.customers)

C22_Witness ==
    /\ iteration.pc = "done" /\ Len(iteration.calls) = 4
    /\ iteration.calls[1].context = <<"VE", "atencion">>
    /\ iteration.calls[2].reward = 300
    /\ iteration.calls[3].context = <<"NVE", "finanzas">>
    /\ iteration.calls[4].reward = 900

----------------------------------------------------------------------------
\* C23: the transcript run_conversation returns starts with an agent turn and
\* alternates: no two consecutive turns have the same role, for every
\* max_turns >= 1 and every pattern of end triggers and NPS answers.
C23_TurnsAlternate ==
    (conversation.pc = "returned" /\ conversation.max_turns >= 1) =>
        /\ conversation.turns[1].role = "agent"
        /\ \A i \in 1..(Len(conversation.turns) - 1) :
              conversation.turns[i].role # conversation.turns[i + 1].role

\* What the code does: the turns of the loop alternate, and so does the
\* appended pair; the pair may follow an agent turn.
C23_LoopTurnsAlternate ==
    (conversation.pc = "returned" /\ conversation.max_turns >= 1) =>
        /\ conversation.turns[1].role = "agent"
        /\ \A i \in 1..(Len(conversation.turns) - 1) :
              (conversation.turns[i].role = conversation.turns[i + 1].role)
                 => /\ conversation.turns[i].role = "agent"
                    /\ conversation.turns[i].metadata.auto = ""
                    /\ conversation.turns[i + 1].metadata.auto = "nps_request"

C23_TwoAgentTurns ==
    /\ conversation.pc = "returned" /\ conversation.max_turns = 1
    /\ Len(conversation.turns) = 3
    /\ conversation.turns[1].role = "agent" /\ conversation.turns[2].role = "agent"
    /\ conversation.outcome = <<"max_turns_reached">>

----------------------------------------------------------------------------
\* C24: the main loop ends at the first generated message that contains an
\* end trigger, with ended_by the role that wrote it and outcome
\* <role>_signaled_end:<trigger>, and generates no turn after it; with no such
\* message it ends after max_turns agent turns and max_turns - 1 customer
\* turns with outcome max_turns_reached and ended_by None.
C24_SameLetter(a, b) ==
    \/ a = b
    \/ <<a, b>> \in {<<"e", "E">>, <<"n", "N">>, <<"d", "D">>,
                     <<"E", "e">>, <<"N", "n">>, <<"D", "d">>}

C24_Holds(text, trigger) ==
    \E i \in 0..(Len(text) - Len(trigger)) :
        \A k \in 1..Len(trigger) : C24_SameLetter(text[i + k], trigger[k])

C24_Triggers == {conversation.end_triggers[i] : i \in 1..Len(conversation.end_triggers)}

C24_IsLoopTurn(turn) == turn.metadata.auto = ""

C24_Loop == SelectSeq(conversation.turns, C24_IsLoopTurn)

C24_Signals(i) == \E t \in C24_Triggers : C24_Holds(C24_Loop[i].content, t)

----------------------------------------------------------------------------
\* C25: _create_response calls the API at most max_retries times, returns the
\* response of the first successful attempt without further attempts, sleeps
\* backoff**attempt between a failed attempt and the next one but not after
\* the last attempt, and raises RuntimeError iff all max_retries attempts
\* failed.
C25_InCall == runner.pc \in {"attempt", "sleep", "returned", "raised"}

C25_Over == runner.pc \in {"returned", "raised"}

RECURSIVE C25_Power(_, _)
C25_Power(b, n) == IF n = 0 THEN 1 ELSE C25_Power(b, n - 1) * b

\* the k-th sleep lasts (backoff / 10) ** k seconds
C25_SleptPower(k) ==
    runner.sleeps[k][1] * C25_Power(10, k) = C25_Power(runner.backoff, k) * runner.sleeps[k][2]

C25_State ==
    C25_InCall =>
        /\ runner.calls <= runner.max_retries
        /\ runner.calls - Len(runner.failures) \in {0, 1}
        /\ (runner.calls - Len(runner.failures) = 1) <=> (runner.pc = "returned")
        /\ runner.pc = "returned" => runner.result = "response" /\ runner.error = ""
        /\ \A k \in 1..Len(runner.sleeps) : C25_SleptPower(k)
        /\ runner.pc = "attempt" => Len(runner.sleeps) = Len(runner.failures)
        /\ runner.pc = "sleep" => Len(runner.sleeps) = Len(runner.failures) - 1
        /\ runner.pc = "returned" => Len(runner.sleeps) = Len(runner.failures)
        /\ runner.pc = "raised" =>
              Len(runner.sleeps) = Max(0, Len(runner.failures) - 1)
        /\ C25_Over =>
              ((runner.pc = "raised" /\ runner.error = "RuntimeError")
                 <=> Len(runner.failures) = runner.max_retries)
        /\ C25_Over => (runner.pc = "raised" <=> runner.error = "RuntimeError")

\* once the call is over no attempt and no sleep is added to it
C25_Step ==
    C25_Over =>
        \/ UNCHANGED runner
        \/ runner'.calls = 0 /\ runner'.sleeps = << >>

C25_RetriesWithBackoff == []C25_State /\ [][C25_Step]_vars

C25_Witness ==
    /\ runner.pc = "returned" /\ runner.max_retries = 3 /\ runner.backoff = 15
    /\ runner.calls = 3
    /\ runner.failures = <<"RateLimitError", "APIConnectionError">>
    /\ runner.sleeps = <<<<15, 10>>, <<225, 100>>>>

----------------------------------------------------------------------------
\* C30: with concurrency > 1 the batch run_iteration returns its summaries in
\* the order of the input profiles whatever the order in which the workers
\* complete, with exactly one record for each profile whose processing
\* succeeded and none for one whose processing raised; a failed profile
\* neither aborts nor drops the others.
C30_Succeeded ==
    {idx \in DOMAIN batch.results :
        batch.results[idx] # None /\ batch.results[idx][1].record # None}

C30_SummariesInInputOrder ==
    batch.pc = "returned" =>
        /\ \A idx \in DOMAIN batch.results : batch.results[idx] # None
        /\ Len(batch.summaries) = Cardinality(C30_Succeeded)
        /\ \A idx \in C30_Succeeded :
              \E k \in 1..Len(batch.summaries) : batch.summaries[k] = idx
        /\ \A k \in 1..(Len(batch.summaries) - 1) :
              batch.summaries[k] < batch.summaries[k + 1]

\* Profile 1 raised, profile 2 was stored before profile 0.
C30_Witness ==
    /\ batch.pc = "returned" /\ batch.n = 3
    /\ batch.records = <<2, 0>>
    /\ batch.results[1][1].record = None
    /\ batch.summaries = <<0, 2>>

====
